---------------------------- MODULE Spec2Model ----------------------------
(***************************************************************************)
(* Verification model of the two serial power-meter drivers:               *)
(*   Meter A  = class ISW8001 (src/isw8001.js), CR-terminated ASCII lines, *)
(*              command/response correlation by polling responseQueue.     *)
(*   Meter B  = class MPM1010 (source text embedded in                     *)
(*              src/docs/MPM1010-PROTOCOL.md, lines 450-812), binary       *)
(*              frames started by the marker byte 0x21.                    *)
(* Time is in ms.  The drivers read Date.now() only in differences, so the *)
(* model keeps differences: the time elapsed since a recorded timestamp    *)
(* and the time left on a pending timer.  Every delay in both drivers is a *)
(* multiple of the 50 ms poll period, so the clock advances on that grid   *)
(* and a timer fires when its time left reaches 0.                         *)
(***************************************************************************)
EXTENDS Integers, Sequences, FiniteSets, TLC

VARIABLES
  \* ---- Meter A (ISW8001) ----
  portA,          \* this.port: "none" | "opening" | "open" | "closing" | "closed"
  responseQueue,  \* this.responseQueue: entries [line, seq], seq = arrival number
  autoModeA,      \* this.autoModeEnabled
  queries,        \* the sendAndWait promises with their checkResponse timers
  discA,          \* position of an executing disconnect()
  rxCountA,       \* number of lines delivered by the parser so far
  setterA,        \* the sleep of an executing setter, if any
  outA,           \* what the last step did to the outside: the command written
                  \* to the port, the 'measurement' event emitted, the promise
                  \* settled
  \* ---- Meter B (MPM1010) ----
  portB,                    \* this.port: "none" | "opening" | "open" | "closing" | "closed"
  buffer,                   \* this.buffer: the bytes received and not yet cut off
  autoModeB,                \* this.autoModeEnabled
  fallbackTimer,            \* this.fallbackTimer, if armed: its callback and time left
  nextRequestScheduled,     \* this.nextRequestScheduled
  delayedRequestScheduled,  \* this.delayedRequestScheduled
  currentMeasurementTime,   \* arrival number of the stamped chunk, 0 for null
  minInterval,              \* this.minInterval
  sinceRequest,             \* Date.now() - this.lastRequestTime, up to SinceCap
  immediates,               \* setImmediate callbacks of processBuffer to run
  get,                      \* the getMeasurement promise with its two timers
  rxChunks,                 \* number of chunks delivered by the port so far
  quiet,                    \* disableAutoMode was called, and since then
                            \* neither enableAutoMode nor getMeasurement
  held,                     \* markers the buffer held at that disableAutoMode
                            \* whose frames are not resolved yet
  stamps,                   \* for each marker in the buffer, the arrival
                            \* number of the chunk that brought it
  session,                  \* enableAutoMode was called, and since then
                            \* not disableAutoMode
  outB,                     \* what the last step did to the outside
  \* ---- the decoders of both drivers, run on their own ----
  dIn,                      \* the argument of the call
  dOut                      \* its result, once the call has returned

varsA == <<portA, responseQueue, autoModeA, queries, discA, rxCountA, setterA,
          outA>>

varsB == <<portB, buffer, autoModeB, fallbackTimer, nextRequestScheduled,
           delayedRequestScheduled, currentMeasurementTime, minInterval,
           sinceRequest, immediates, get, rxChunks, quiet, held, stamps,
           session, outB>>

varsD == <<dIn, dOut>>

vars == <<varsA, varsB, varsD>>

-----------------------------------------------------------------------------
(* Bounds of the model.                                                    *)
MaxLines == 2          \* lines Meter A sends in a run
MaxQueries == 2        \* sendAndWait promises pending at the same time
MaxChunks == 2         \* chunks Meter B's port delivers in a run
MaxImmediates == 1     \* setImmediate callbacks queued when a chunk arrives
MaxPayload == 21       \* bytes of a payload given to Meter B's decoder
MaxCuts == 2           \* chunk boundaries the port puts in a stream

(* Program constants.                                                      *)
PollPeriod == 50
DefaultTimeout == 1000
AutoModeSettle == 100
RangeSettle == 100
FunctionSettle == 200
Marker == 33
TriggerLength == 13
FrameLength == 21
MinPayload == 12
FallbackFloor == 100
FallbackMargin == 50
GetTimeout == 2000
RestoreDelay == 1500

\* The clock grid: all delays of both drivers are multiples of the poll period.
Quantum == PollPeriod

\* the time left of a timer that is not armed
NoTimer == -1


-----------------------------------------------------------------------------
(* Meter A: line cleaning (connect, parser 'data' handler).                *)

Whitespace == {" ", "LF", "TAB"}
FlowControl == {"XON", "XOFF"}     \* bytes 0x11 and 0x13

RemoveFlowControl(s) == SelectSeq(s, LAMBDA c : c \notin FlowControl)

RECURSIVE TrimStart(_)
TrimStart(s) ==
  IF s # <<>> /\ Head(s) \in Whitespace THEN TrimStart(Tail(s)) ELSE s

RECURSIVE TrimEnd(_)
TrimEnd(s) ==
  IF s # <<>> /\ s[Len(s)] \in Whitespace
  THEN TrimEnd(SubSeq(s, 1, Len(s) - 1))
  ELSE s

Trim(s) == TrimEnd(TrimStart(s))

\* Mutant of CleanLine: the line is not trimmed.
CleanLineUntrimmed(raw) == RemoveFlowControl(raw)

\* line.replace(/[\x11\x13]/g, '').trim()
CleanLine(raw) == Trim(RemoveFlowControl(raw))

-----------------------------------------------------------------------------
(* Values of the decoders.  A string is a sequence of characters; a number *)
(* is kept as the decimal it was read from: mant / 10^frac, without        *)
(* trailing zeros in the fraction, so that 0 and -0 are the same number.   *)
(* The rounding of a decimal to the nearest double is not modelled.        *)

Undefined == [kind |-> "undefined"]
NaN == [kind |-> "NaN"]

DigitChars == <<"0", "1", "2", "3", "4", "5", "6", "7", "8", "9">>
IsDigit(c) == \E d \in 1..10 : DigitChars[d] = c
DigitValue(c) == (CHOOSE d \in 1..10 : DigitChars[d] = c) - 1

Infinity(sign) == [kind |-> "infinity", sign |-> sign]
Text(chars) == [kind |-> "text", chars |-> chars]

\* the longest prefix of str made of digits
RECURSIVE LeadingDigits(_)
LeadingDigits(str) ==
  IF str # <<>> /\ IsDigit(Head(str))
  THEN <<Head(str)>> \o LeadingDigits(Tail(str))
  ELSE <<>>

RECURSIVE DigitsToNat(_)
DigitsToNat(ds) ==
  IF ds = <<>> THEN 0
  ELSE 10 * DigitsToNat(SubSeq(ds, 1, Len(ds) - 1)) + DigitValue(ds[Len(ds)])

RECURSIVE Decimal(_, _)
Decimal(mant, frac) ==
  IF frac > 0 /\ mant % 10 = 0
  THEN Decimal(mant \div 10, frac - 1)
  ELSE [kind |-> "number", mant |-> mant, frac |-> frac]

RECURSIVE Pow10(_)
Pow10(n) == IF n = 0 THEN 1 ELSE 10 * Pow10(n - 1)

StartsWith(s, c) == s # <<>> /\ Head(s) = c

\* the characters of str after an optional sign, and the sign
Unsigned(str) == IF StartsWith(str, "+") \/ StartsWith(str, "-") THEN Tail(str) ELSE str
SignOf(str) == IF StartsWith(str, "-") THEN -1 ELSE 1

\* the exponent part at the head of str: e or E, an optional sign and at
\* least one digit; 0 when str does not start with one
ExponentOf(str) ==
  IF (StartsWith(str, "e") \/ StartsWith(str, "E"))
       /\ LeadingDigits(Unsigned(Tail(str))) # <<>>
  THEN SignOf(Tail(str)) * DigitsToNat(LeadingDigits(Unsigned(Tail(str))))
  ELSE 0

\* parseFloat(str): leading white space is skipped, then the longest
\* prefix that is a decimal literal (sign, digits, point, digits, exponent)
\* or Infinity is read; NaN when there is none
ParseFloat(str) ==
  LET body  == Unsigned(TrimStart(str))
      sign  == SignOf(TrimStart(str))
      int   == LeadingDigits(body)
      rest  == SubSeq(body, Len(int) + 1, Len(body))
      point == StartsWith(rest, ".")
      fr    == IF point THEN LeadingDigits(Tail(rest)) ELSE <<>>
      after == IF point THEN SubSeq(rest, Len(fr) + 2, Len(rest)) ELSE rest
      shift == ExponentOf(after) - Len(fr)
      mant  == sign * DigitsToNat(int \o fr)
  IN IF Len(body) >= 8 /\ SubSeq(body, 1, 8) = <<"I", "n", "f", "i", "n", "i", "t", "y">>
     THEN Infinity(sign)
     ELSE IF int = <<>> /\ fr = <<>> THEN NaN
     ELSE IF shift >= 0 THEN Decimal(mant * Pow10(shift), 0)
     ELSE Decimal(mant, 0 - shift)

-----------------------------------------------------------------------------
(* Meter A: parseMeasurement.                                              *)

\* response.trim().split(/\s+/)
RECURSIVE SplitWs(_, _, _)
SplitWs(s, cur, acc) ==
  IF s = <<>>
  THEN IF cur = <<>> THEN acc ELSE Append(acc, cur)
  ELSE IF Head(s) \in Whitespace
       THEN SplitWs(Tail(s), <<>>, IF cur = <<>> THEN acc ELSE Append(acc, cur))
       ELSE SplitWs(Tail(s), Append(cur, Head(s)), acc)

Tokens(line) == SplitWs(Trim(line), <<>>, <<>>)

\* part.split('=')[0]
RECURSIVE BeforeEq(_)
BeforeEq(tok) ==
  IF tok = <<>> \/ Head(tok) = "=" THEN <<>> ELSE <<Head(tok)>> \o BeforeEq(Tail(tok))

HasEq(tok) == \E i \in 1..Len(tok) : tok[i] = "="

\* keys of UNIT_MAP
UnitMapKeys ==
  { <<"W">>, <<"V","A","R">>, <<"P","F">>, <<"D","C","V">>, <<"A","C","V">>,
    <<"D","C","A">>, <<"A","C","A">> }

\* part.split('=')[1]
AfterEq(tok) == BeforeEq(SubSeq(tok, Len(BeforeEq(tok)) + 2, Len(tok)))

\* UNIT_MAP
UnitMap ==
  (<<"W">> :> <<"W">>) @@ (<<"V", "A", "R">> :> <<"V", "A", "r">>) @@ (<<"P", "F">> :> <<>>)
    @@ (<<"D", "C", "V">> :> <<"V">>) @@ (<<"A", "C", "V">> :> <<"V">>)
    @@ (<<"D", "C", "A">> :> <<"A">>) @@ (<<"A", "C", "A">> :> <<"A">>)

\* Mutant of VoltageRanges: two tags share a label.
VoltageRangesShared ==
  (<<"U", "1">> :> <<"5", "0", "V">>) @@ (<<"U", "2">> :> <<"5", "0", "V">>) @@ (<<"U", "3">> :> <<"5", "0", "0", "V">>)

\* VOLTAGE_RANGES
VoltageRanges ==
  (<<"U", "1">> :> <<"5", "0", "V">>) @@ (<<"U", "2">> :> <<"1", "5", "0", "V">>) @@ (<<"U", "3">> :> <<"5", "0", "0", "V">>)

\* CURRENT_RANGES
CurrentRanges ==
  (<<"I", "1">> :> <<"1", "6", "0", "m", "A">>) @@ (<<"I", "2">> :> <<"1", ".", "6", "A">>) @@ (<<"I", "3">> :> <<"1", "6", "A">>)
    @@ (<<"I", "x">> :> <<"E", "x", "t", "e", "r", "n", "a", "l">>)

\* UNIT_MAP is an object literal: the in operator also finds the
\* properties it inherits from Object.prototype
ObjectPrototypeKeys ==
  { <<"c", "o", "n", "s", "t", "r", "u", "c", "t", "o", "r">>,
    <<"_", "_", "d", "e", "f", "i", "n", "e", "G", "e", "t", "t", "e", "r", "_", "_">>,
    <<"_", "_", "d", "e", "f", "i", "n", "e", "S", "e", "t", "t", "e", "r", "_", "_">>,
    <<"h", "a", "s", "O", "w", "n", "P", "r", "o", "p", "e", "r", "t", "y">>,
    <<"_", "_", "l", "o", "o", "k", "u", "p", "G", "e", "t", "t", "e", "r", "_", "_">>,
    <<"_", "_", "l", "o", "o", "k", "u", "p", "S", "e", "t", "t", "e", "r", "_", "_">>,
    <<"i", "s", "P", "r", "o", "t", "o", "t", "y", "p", "e", "O", "f">>,
    <<"p", "r", "o", "p", "e", "r", "t", "y", "I", "s", "E", "n", "u", "m", "e", "r", "a", "b", "l", "e">>,
    <<"t", "o", "S", "t", "r", "i", "n", "g">>,
    <<"v", "a", "l", "u", "e", "O", "f">>,
    <<"_", "_", "p", "r", "o", "t", "o", "_", "_">>,
    <<"t", "o", "L", "o", "c", "a", "l", "e", "S", "t", "r", "i", "n", "g">> }

Inherited == [kind |-> "inherited"]

\* type in UNIT_MAP
InUnitMap(type) == type \in UnitMapKeys \cup ObjectPrototypeKeys

\* RANGES[key] || raw
RangeLabel(table, key, raw) ==
  IF key \in DOMAIN table /\ table[key] # <<>> THEN Text(table[key]) ELSE Text(raw)

\* Mutant of MeasuredValue: the result of parseFloat is kept as it is.
MeasuredValueNumeric(value) == ParseFloat(value)

\* isNaN(numValue) ? value : numValue
MeasuredValue(value) ==
  IF ParseFloat(value) = NaN THEN Text(value) ELSE ParseFloat(value)

\* const result = {}
NoResult ==
  [type |-> Undefined, value |-> Undefined, unit |-> Undefined,
   voltageRange |-> Undefined, voltage |-> Undefined,
   currentRange |-> Undefined, current |-> Undefined]

\* Mutant of RangeKey: the whole tag is looked up.
RangeKeyWhole(type) == type

\* type.substring(0, 2)
RangeKey(type) == SubSeq(type, 1, 2)

\* the body of the loop over the parts
ParsePart(result, part) ==
  IF HasEq(part)
  THEN LET type  == BeforeEq(part)
           value == AfterEq(part)
       IN IF InUnitMap(type)
          THEN [result EXCEPT
                  !.type = Text(type),
                  !.value = MeasuredValue(value),
                  !.unit = IF type \in DOMAIN UnitMap
                           THEN Text(UnitMap[type]) ELSE Inherited]
          ELSE IF StartsWith(type, "U") /\ Len(type) >= 2
          THEN [result EXCEPT
                  !.voltageRange = RangeLabel(VoltageRanges, RangeKey(type), type),
                  !.voltage = ParseFloat(value)]
          ELSE IF StartsWith(type, "I") /\ Len(type) >= 2
          THEN [result EXCEPT
                  !.currentRange = RangeLabel(CurrentRanges, RangeKey(type), type),
                  !.current = ParseFloat(value)]
          ELSE result
  ELSE IF StartsWith(part, "U")
       THEN [result EXCEPT !.voltageRange = RangeLabel(VoltageRanges, part, part)]
       ELSE IF StartsWith(part, "I")
       THEN [result EXCEPT !.currentRange = RangeLabel(CurrentRanges, part, part)]
       ELSE result

RECURSIVE ParseParts(_, _)
ParseParts(result, parts) ==
  IF parts = <<>> THEN result
  ELSE ParseParts(ParsePart(result, Head(parts)), Tail(parts))

\* parseMeasurement(response) of Meter A
ParseMeasurementA(response) == ParseParts(NoResult, Tokens(response))

\* parseMeasurement(line).value !== undefined
ValueDefined(line) == ParseMeasurementA(line).value # Undefined

\* Mutant of EmitsMeasurement: a line is taken as the answer of a pending
\* query and not broadcast.
EmitsMeasurementUnsolicited(auto, line, waiting) ==
  auto /\ ValueDefined(line) /\ ~waiting

\* the data handler: this.autoModeEnabled && parsed.value !== undefined;
\* waiting tells whether a sendAndWait promise is pending, which is not read
EmitsMeasurement(auto, line, waiting) ==
  auto /\ ValueDefined(line)

\* Lines the parser may deliver (the text between two CR bytes).
RawLines ==
  { <<"LF", "XON", " ", "XOFF">>,              \* empty after cleaning
    <<"XON", "W", "=", "1">>,                  \* a measurement
    <<"LF", "U", "1", " ", "I", "2", "XOFF">> } \* a status line, no value

-----------------------------------------------------------------------------
(* Meter A: what a step shows to the outside.                              *)

NoLine == [line |-> <<>>, seq |-> 0]

NoSettle == [kind |-> "none"]

NoReturn == [kind |-> "none"]

\* tx: the command given to sendCommand ("" for none); wire: the text it
\* wrote to the port; event: a 'measurement' event was emitted; settle: the
\* sendAndWait promise settled in this step, with the history of its query;
\* returned: how the promise of identify() settled in this step; thrown: a
\* setter threw its error; completed: a setter's promise resolved, after
\* that many ms (0: none did); rx: the line the parser delivered in this
\* step, as received (<<>>: none).
NoOut ==
  [tx |-> "", wire |-> "", event |-> FALSE, settle |-> NoSettle,
   returned |-> NoReturn, thrown |-> FALSE, completed |-> 0, rx |-> <<>>]

\* Mutant of SendCommand: the command is written without its terminator.
SendCommandBare(out, command) ==
  [out EXCEPT !.tx = command, !.wire = command]

\* sendCommand(command): this.port.write(command + '\r')
SendCommand(out, command) ==
  [out EXCEPT !.tx = command, !.wire = command \o "\r"]

-----------------------------------------------------------------------------
(* Meter A: sendAndWait.                                                   *)

\* An unused slot of queries.  A slot holds a promise from its creation until
\* it settles.
Free == [state |-> "free"]

Pending(qs) == { i \in DOMAIN qs : qs[i].state = "pending" }

\* this.responseQueue = []
ClearedQueue == <<>>

\* Mutant of Enqueue: the line is put at the front.
EnqueueFront(queue, entry) == <<entry>> \o queue

\* this.responseQueue.push(line)
Enqueue(queue, entry) == Append(queue, entry)

\* Mutant of CheckResponse: resolving takes the line off the queue.
CheckResponseShift(q, queue) ==
  IF Len(queue) > 0
  THEN [kind |-> "resolved", value |-> queue[1], queue |-> Tail(queue)]
  ELSE IF q.elapsed > q.timeoutMs
       THEN [kind |-> "rejected", value |-> NoLine, queue |-> queue]
       ELSE [kind |-> "again", value |-> NoLine, queue |-> queue]

\* Mutant of CheckResponse: the timeout is taken in seconds.
CheckResponseSeconds(q, queue) ==
  IF Len(queue) > 0
  THEN [kind |-> "resolved", value |-> queue[1], queue |-> queue]
  ELSE IF q.elapsed > q.timeoutMs \div 1000
       THEN [kind |-> "rejected", value |-> NoLine, queue |-> queue]
       ELSE [kind |-> "again", value |-> NoLine, queue |-> queue]

\* Mutant of CheckResponse: one more poll is granted after the deadline.
CheckResponseSlack(q, queue) ==
  IF Len(queue) > 0
  THEN [kind |-> "resolved", value |-> queue[1], queue |-> queue]
  ELSE IF q.elapsed > q.timeoutMs + PollPeriod
       THEN [kind |-> "rejected", value |-> NoLine, queue |-> queue]
       ELSE [kind |-> "again", value |-> NoLine, queue |-> queue]

\* checkResponse: one run of the polling closure of query q, where
\* q.elapsed = Date.now() - startTime.  The queue is read, not changed.
CheckResponse(q, queue) ==
  IF Len(queue) > 0
  THEN [kind |-> "resolved", value |-> queue[1], queue |-> queue]
  ELSE IF q.elapsed > q.timeoutMs
       THEN [kind |-> "rejected", value |-> NoLine, queue |-> queue]
       ELSE [kind |-> "again", value |-> NoLine, queue |-> queue]
                                               \* setTimeout(checkResponse, 50)

\* The promise created by sendAndWait(cmd, timeoutMs): the first
\* checkResponse() runs in the call, on the queue just emptied, and arms the
\* timer.  wait is the time left on its setTimeout.  History kept with it:
\*   rxAtClear  number of lines received before the last emptying of the queue
\*   firstRx    arrival number of the first non-empty cleaned line received
\*              after its transmit (0: none yet)
\*   headLate   the line at responseQueue[0] was received when
\*              Date.now() - startTime > timeoutMs
\*   peers      how many other queries have been pending with it (2: two or more)
\*   peerAnswer arrival number of the line that resolved such a query (0: none)
NewQuery(qs, owner, timeoutMs) ==
  [state |-> "pending", owner |-> owner, timeoutMs |-> timeoutMs,
   elapsed |-> 0,
   wait |-> IF CheckResponse([elapsed |-> 0, timeoutMs |-> timeoutMs],
                             ClearedQueue).kind = "again"
            THEN PollPeriod ELSE NoTimer,
   rxAtClear |-> rxCountA, firstRx |-> 0,
   headLate |-> FALSE,
   peers |-> IF Cardinality(Pending(qs)) > 2 THEN 2 ELSE Cardinality(Pending(qs)),
   peerAnswer |-> 0]

FreeSlot(qs) == CHOOSE i \in DOMAIN qs :
                   /\ qs[i].state = "free"
                   /\ \A j \in DOMAIN qs : qs[j].state = "free" => i <= j

\* queries after the transmit of a new query, which empties the queue
WithNewQuery(qs, owner, timeoutMs) ==
  [i \in DOMAIN qs |->
     IF i = FreeSlot(qs) THEN NewQuery(qs, owner, timeoutMs)
     ELSE IF qs[i].state = "pending"
          THEN [qs[i] EXCEPT !.peers = IF @ = 0 THEN 1 ELSE 2,
                             !.headLate = FALSE,
                             !.rxAtClear = rxCountA]
          ELSE qs[i]]

\* queries after query i has settled with the line of arrival number seq
\* (0: rejected)
Settled(qs, i, seq) ==
  [j \in DOMAIN qs |->
     IF j = i THEN Free
     ELSE IF qs[j].state = "pending" /\ seq # 0
          THEN [qs[j] EXCEPT !.peerAnswer = seq]
          ELSE qs[j]]

\* how checkResponse settled q, if it did
Settlement(q, queue) ==
  IF CheckResponse(q, queue).kind = "again" THEN NoSettle
  ELSE [kind |-> CheckResponse(q, queue).kind,
        answer |-> CheckResponse(q, queue).value,
        owner |-> q.owner, timeoutMs |-> q.timeoutMs, elapsed |-> q.elapsed,
        late |-> q.headLate, rxAtClear |-> q.rxAtClear,
        firstRx |-> q.firstRx, peers |-> q.peers,
        peerAnswer |-> q.peerAnswer]

\* Mutant of IdentifyTimeout: identify() passes a longer timeout.
IdentifyTimeoutLong == 2 * DefaultTimeout

\* identify() calls sendAndWait without a timeout argument
IdentifyTimeout == DefaultTimeout

\* let name = 'ISW8001'; let version = null
DefaultName == [line |-> <<"I", "S", "W", "8", "0", "0", "1">>, seq |-> 0]
Null == [kind |-> "null"]

\* Mutant of IdentifyResult: the error of sendAndWait is not caught.
IdentifyResultThrows(name, r) ==
  IF r.kind = "resolved"
  THEN [kind |-> "resolved", name |-> name, version |-> r.value]
  ELSE [kind |-> "rejected", name |-> name, version |-> Null]

\* identify(): return { name, version }, where r is the outcome of the last
\* sendAndWait it awaited; catch (e) { } keeps what was assigned before
IdentifyResult(name, r) ==
  [kind |-> "resolved", name |-> name,
   version |-> IF r.kind = "resolved" THEN r.value ELSE Null]

\* sendAndWait calls of the caller: a command and a timeout
UserQueries ==
  { [cmd |-> "VAL?", timeoutMs |-> 2 * PollPeriod] }

\* The caller awaits disconnect() and the setters: it makes no other call
\* while one of them executes, and it calls a setter when its queries have
\* settled.
Idle == discA.pc = "idle" /\ setterA.pc = "idle"

\* The caller awaits identify(): no other query is issued while it runs.
IdentifyRunning == \E i \in Pending(queries) : queries[i].owner # "user"

-----------------------------------------------------------------------------
(* Meter A: actions.                                                       *)

\* connect(): new SerialPort(...), parser and handlers attached
ConnectA ==
  /\ portA \in {"none", "closed"}
  /\ Idle
  /\ portA' = "opening"
  /\ outA' = NoOut
  /\ UNCHANGED <<responseQueue, autoModeA, queries, discA, rxCountA>>
  /\ UNCHANGED setterA

\* port 'open' event: await this.sleep(500); resolve()
PortOpenedA ==
  /\ portA = "opening"
  /\ portA' = "open"
  /\ outA' = NoOut
  /\ UNCHANGED <<responseQueue, autoModeA, queries, discA, rxCountA>>
  /\ UNCHANGED setterA

\* the open callback reports an error: reject(new Error('Failed to open port'))
PortOpenFailedA ==
  /\ portA = "opening"
  /\ portA' = "closed"
  /\ outA' = NoOut
  /\ UNCHANGED <<responseQueue, autoModeA, queries, discA, rxCountA>>
  /\ UNCHANGED setterA

\* parser.on('data', line)
DataLineA(raw) ==
  /\ portA = "open"
  /\ rxCountA < MaxLines
  /\ rxCountA' = rxCountA + 1
  /\ LET line == CleanLine(raw)
         entry == [line |-> line, seq |-> rxCountA + 1]
     IN IF Len(line) > 0
        THEN /\ outA' = [NoOut EXCEPT
                           !.rx = raw,
                           !.event = EmitsMeasurement(autoModeA, line,
                                                      Pending(queries) # {})]
             /\ responseQueue' = Enqueue(responseQueue, entry)
             /\ queries' = [i \in DOMAIN queries |->
                              IF queries[i].state = "pending"
                              THEN [queries[i] EXCEPT
                                      !.firstRx = IF @ = 0 THEN entry.seq ELSE @,
                                      !.headLate =
                                         IF responseQueue = <<>>
                                         THEN queries[i].elapsed > queries[i].timeoutMs
                                         ELSE @]
                              ELSE queries[i]]
        ELSE /\ outA' = [NoOut EXCEPT !.rx = raw]
             /\ UNCHANGED <<responseQueue, queries>>
  /\ UNCHANGED <<portA, autoModeA, discA>>
  /\ UNCHANGED setterA

\* sendAndWait(cmd, timeoutMs), also getValue / getStatus / getStatusAndValue
SendAndWait(cmd, timeoutMs) ==
  /\ portA = "open"
  /\ Idle
  /\ \E i \in DOMAIN queries : queries[i].state = "free"
  /\ ~IdentifyRunning
  /\ responseQueue' = ClearedQueue
  /\ outA' = SendCommand(NoOut, cmd)
  /\ queries' = WithNewQuery(queries, "user", timeoutMs)
  /\ UNCHANGED <<portA, autoModeA, discA, rxCountA>>
  /\ UNCHANGED setterA

\* identify(): name = await this.sendAndWait('*IDN?')
Identify ==
  /\ portA = "open"
  /\ Idle
  /\ Pending(queries) = {}
  /\ responseQueue' = ClearedQueue
  /\ outA' = SendCommand(NoOut, "*IDN?")
  /\ queries' = WithNewQuery(queries, "idn", IdentifyTimeout)
  /\ UNCHANGED <<portA, autoModeA, discA, rxCountA>>
  /\ UNCHANGED setterA

\* setTimeout(checkResponse, 50) of query i fires.  When it resolves the
\* '*IDN?' query of identify(), identify() continues in the same turn with
\* version = await this.sendAndWait('VERSION?'), and the name is kept with
\* the new query.  When a query of identify() rejects, or its 'VERSION?'
\* query settles, identify() returns.
Poll(i) ==
  /\ i \in Pending(queries)
  /\ queries[i].wait = 0
  /\ LET r == CheckResponse(queries[i], responseQueue)
         settle == Settlement(queries[i], responseQueue)
         qs == Settled(queries, i, r.value.seq)
     IN IF r.kind = "again"
        THEN /\ queries' = [queries EXCEPT ![i].wait = PollPeriod]
             /\ outA' = NoOut
             /\ responseQueue' = r.queue
        ELSE IF r.kind = "resolved" /\ queries[i].owner = "idn"
        THEN /\ responseQueue' = ClearedQueue
             /\ outA' = SendCommand([NoOut EXCEPT !.settle = settle], "VERSION?")
             /\ queries' = [j \in DOMAIN qs |->
                              IF j = FreeSlot(qs)
                              THEN WithNewQuery(qs, "version", IdentifyTimeout)[j]
                                     @@ [name |-> r.value]
                              ELSE WithNewQuery(qs, "version", IdentifyTimeout)[j]]
        ELSE /\ queries' = qs
             /\ outA' = [NoOut EXCEPT
                           !.settle = settle,
                           !.returned =
                              IF queries[i].owner = "idn"
                              THEN IdentifyResult(DefaultName, r)
                              ELSE IF queries[i].owner = "version"
                              THEN IdentifyResult(queries[i].name, r)
                              ELSE NoReturn]
             /\ responseQueue' = r.queue
  /\ UNCHANGED <<portA, autoModeA, discA, rxCountA>>
  /\ UNCHANGED setterA

NoSetter == [pc |-> "idle", wait |-> NoTimer, slept |-> 0]
Sleeping(ms) == [pc |-> "sleep", wait |-> ms, slept |-> 0]

\* enableAutoMode(), up to await this.sleep(100)
EnableAutoModeA ==
  /\ portA = "open"
  /\ Idle
  /\ Pending(queries) = {}
  /\ autoModeA' = TRUE
  /\ outA' = SendCommand(NoOut, "MA1")
  /\ setterA' = Sleeping(AutoModeSettle)
  /\ UNCHANGED <<portA, responseQueue, queries, discA, rxCountA>>

\* disableAutoMode(), up to await this.sleep(100)
DisableAutoModeA ==
  /\ portA = "open"
  /\ Idle
  /\ Pending(queries) = {}
  /\ autoModeA' = FALSE
  /\ outA' = SendCommand(NoOut, "MA0")
  /\ setterA' = Sleeping(AutoModeSettle)
  /\ UNCHANGED <<portA, responseQueue, queries, discA, rxCountA>>

\* func.toUpperCase(), for the names the caller passes
ToUpperCase(func) ==
  CASE func = "watt" -> "WATT"
    [] func = "Volt" -> "VOLT"
    [] func = "pwf" -> "PWF"
    [] OTHER -> func

\* Mutant of ValidFunctions: the power-factor function is accepted.
ValidFunctionsWithPower == {"WATT", "VAR", "VOLT", "AMP", "PWF"}

\* validFunctions
ValidFunctions == {"WATT", "VAR", "VOLT", "AMP"}

\* names passed to setFunction, range numbers passed to setVoltageRange
\* and setCurrentRange
Functions == {"WATT", "watt", "VAR", "Volt", "AMP", "PWF", "pwf", "PF", ""}
Ranges == 0..4

\* setFunction(func), up to await this.sleep(200), or to its throw
SetFunction(func) ==
  /\ portA = "open"
  /\ Idle
  /\ Pending(queries) = {}
  /\ IF ToUpperCase(func) \notin ValidFunctions
     THEN /\ outA' = [NoOut EXCEPT !.thrown = TRUE]
          /\ UNCHANGED setterA
     ELSE /\ outA' = SendCommand(NoOut, ToUpperCase(func))
          /\ setterA' = Sleeping(FunctionSettle)
  /\ UNCHANGED <<portA, responseQueue, autoModeA, queries, discA, rxCountA>>

\* enableAutoRange(), up to await this.sleep(100)
EnableAutoRange ==
  /\ portA = "open"
  /\ Idle
  /\ Pending(queries) = {}
  /\ outA' = SendCommand(NoOut, "AUTORANGE")
  /\ setterA' = Sleeping(RangeSettle)
  /\ UNCHANGED <<portA, responseQueue, autoModeA, queries, discA, rxCountA>>

\* disableAutoRange(), up to await this.sleep(100)
DisableAutoRange ==
  /\ portA = "open"
  /\ Idle
  /\ Pending(queries) = {}
  /\ outA' = SendCommand(NoOut, "MANUAL")
  /\ setterA' = Sleeping(RangeSettle)
  /\ UNCHANGED <<portA, responseQueue, autoModeA, queries, discA, rxCountA>>

\* setVoltageRange(range), up to await this.sleep(100), or to its throw
SetVoltageRange(range) ==
  /\ portA = "open"
  /\ Idle
  /\ Pending(queries) = {}
  /\ IF range \notin {1, 2, 3}
     THEN /\ outA' = [NoOut EXCEPT !.thrown = TRUE]
          /\ UNCHANGED setterA
     ELSE /\ outA' = SendCommand(NoOut, "SET:U" \o ToString(range))
          /\ setterA' = Sleeping(RangeSettle)
  /\ UNCHANGED <<portA, responseQueue, autoModeA, queries, discA, rxCountA>>

\* setCurrentRange(range), up to await this.sleep(100), or to its throw
SetCurrentRange(range) ==
  /\ portA = "open"
  /\ Idle
  /\ Pending(queries) = {}
  /\ IF range \notin {1, 2, 3}
     THEN /\ outA' = [NoOut EXCEPT !.thrown = TRUE]
          /\ UNCHANGED setterA
     ELSE /\ outA' = SendCommand(NoOut, "SET:I" \o ToString(range))
          /\ setterA' = Sleeping(RangeSettle)
  /\ UNCHANGED <<portA, responseQueue, autoModeA, queries, discA, rxCountA>>

\* the sleep of a setter is over: its promise resolves
SetterDoneA ==
  /\ setterA.pc = "sleep"
  /\ setterA.wait = 0
  /\ setterA' = NoSetter
  /\ outA' = [NoOut EXCEPT !.completed = setterA.slept]
  /\ UNCHANGED <<portA, responseQueue, autoModeA, queries, discA, rxCountA>>

\* disconnect(), up to its first suspension
DisconnectA ==
  /\ portA = "open"
  /\ Idle
  /\ IF autoModeA
     THEN \* await this.disableAutoMode()
          /\ autoModeA' = FALSE
          /\ outA' = SendCommand(NoOut, "MA0")
          /\ discA' = [pc |-> "settle", wait |-> AutoModeSettle]
          /\ portA' = portA
     ELSE \* this.port.close(...)
          /\ portA' = "closing"
          /\ outA' = NoOut
          /\ discA' = [pc |-> "closing", wait |-> NoTimer]
          /\ UNCHANGED autoModeA
  /\ UNCHANGED <<responseQueue, queries, rxCountA>>
  /\ UNCHANGED setterA

\* disconnect(): the sleep of disableAutoMode is over, this.port.close(...)
DisconnectSettledA ==
  /\ discA.pc = "settle"
  /\ discA.wait = 0
  /\ portA' = "closing"
  /\ outA' = NoOut
  /\ discA' = [pc |-> "closing", wait |-> NoTimer]
  /\ UNCHANGED <<responseQueue, autoModeA, queries, rxCountA>>
  /\ UNCHANGED setterA

\* disconnect(): the close callback runs, resolve()
DisconnectedA ==
  /\ discA.pc = "closing"
  /\ portA' = "closed"
  /\ outA' = NoOut
  /\ discA' = [pc |-> "idle", wait |-> NoTimer]
  /\ UNCHANGED <<responseQueue, autoModeA, queries, rxCountA>>
  /\ UNCHANGED setterA

\* No timer of Meter A is due.
NoTimerDueA ==
  /\ \A i \in Pending(queries) : queries[i].wait > 0
  /\ discA.pc = "settle" => discA.wait > 0
  /\ setterA.pc = "sleep" => setterA.wait > 0

\* Quantum ms pass while a timer is pending.
TickA ==
  /\ NoTimerDueA
  /\ Pending(queries) # {} \/ discA.pc = "settle" \/ setterA.pc = "sleep"
  /\ queries' = [i \in DOMAIN queries |->
                   IF queries[i].state = "pending"
                   THEN [queries[i] EXCEPT !.elapsed = @ + Quantum,
                                           !.wait = @ - Quantum]
                   ELSE queries[i]]
  /\ discA' = IF discA.pc = "settle"
              THEN [discA EXCEPT !.wait = @ - Quantum] ELSE discA
  /\ setterA' = IF setterA.pc = "sleep"
                THEN [setterA EXCEPT !.wait = @ - Quantum, !.slept = @ + Quantum]
                ELSE setterA
  /\ outA' = NoOut
  /\ UNCHANGED <<portA, responseQueue, autoModeA, rxCountA>>

-----------------------------------------------------------------------------
InitA ==
  /\ portA = "none"
  /\ responseQueue = <<>>
  /\ autoModeA = FALSE
  /\ queries = [i \in 1..MaxQueries |-> Free]
  /\ discA = [pc |-> "idle", wait |-> NoTimer]
  /\ rxCountA = 0
  /\ setterA = NoSetter
  /\ outA = NoOut

-----------------------------------------------------------------------------
(* Meter B: class MPM1010.                                                 *)

Max(a, b) == IF a >= b THEN a ELSE b

\* buf.indexOf(byte, from): 0-based offset of the first occurrence at or
\* after offset from, -1 when there is none
IndexOf(buf, byte, from) ==
  IF \E i \in (from + 1)..Len(buf) : buf[i] = byte
  THEN (CHOOSE i \in (from + 1)..Len(buf) :
           /\ buf[i] = byte
           /\ \A j \in (from + 1)..Len(buf) : buf[j] = byte => i <= j) - 1
  ELSE -1

\* buf.slice(start, end): the bytes at the 0-based offsets start .. end-1
Slice(buf, start, end) ==
  SubSeq(buf, start + 1, IF end > Len(buf) THEN Len(buf) ELSE end)

\* Mutant of MeasurementEndIndex: a following marker does not end the frame.
MeasurementEndIndexFull(buf, ackIndex) ==
  IF Len(buf) >= ackIndex + FrameLength THEN ackIndex + FrameLength ELSE -1

\* processBuffer: where the frame that starts at ackIndex ends - at the next
\* marker, else after 21 bytes, else (-1) not yet
MeasurementEndIndex(buf, ackIndex) ==
  IF IndexOf(buf, Marker, ackIndex + 1) >= 0
  THEN IndexOf(buf, Marker, ackIndex + 1)
  ELSE IF Len(buf) >= ackIndex + FrameLength
       THEN ackIndex + FrameLength
       ELSE -1

(* Meter B: the decoder.                                                   *)

\* n.toString() for n in 0..15
NibbleToString(n) ==
  IF n < 10 THEN <<DigitChars[n + 1]>> ELSE <<"1", DigitChars[n - 9]>>

LowNibble(byte) == byte % 16                  \* bytes[i] & 0x0F
HighNibble(byte) == (byte \div 16) % 16       \* (bytes[i] >> 4) & 0x0F

\* Mutant of PointFollows: any set bit of the high nibble gives a point.
PointFollowsAnyBit(byte) == HighNibble(byte) # 0

\* highNibble === 1
PointFollows(byte) == HighNibble(byte) = 1

\* decodeDigits: the string built by the loop
RECURSIVE DigitString(_)
DigitString(bytes) ==
  IF bytes = <<>> THEN <<>>
  ELSE NibbleToString(LowNibble(Head(bytes)))
         \o (IF PointFollows(Head(bytes)) THEN <<".">> ELSE <<>>)
         \o DigitString(Tail(bytes))

\* decodeDigits(bytes)
DecodeDigits(bytes) == ParseFloat(DigitString(bytes))

\* Mutant of ParseMeasurement: the length of the payload is not tested.
ParseMeasurementUnguarded(data) ==
  [voltage     |-> DecodeDigits(Slice(data, 0, 4)),
   current     |-> DecodeDigits(Slice(data, 4, 8)),
   power       |-> DecodeDigits(Slice(data, 8, 12)),
   powerFactor |-> IF Len(data) >= 16
                   THEN DecodeDigits(Slice(data, 12, 16)) ELSE Undefined,
   frequency   |-> IF Len(data) >= 20
                   THEN DecodeDigits(Slice(data, 16, 20)) ELSE Undefined]

\* Mutant of ParseMeasurement: a quantity is decoded from the bytes at hand.
ParseMeasurementEager(data) ==
  IF Len(data) < MinPayload
  THEN [voltage |-> Undefined, current |-> Undefined, power |-> Undefined,
        powerFactor |-> Undefined, frequency |-> Undefined]
  ELSE [voltage     |-> DecodeDigits(Slice(data, 0, 4)),
        current     |-> DecodeDigits(Slice(data, 4, 8)),
        power       |-> DecodeDigits(Slice(data, 8, 12)),
        powerFactor |-> IF Len(data) > 12
                        THEN DecodeDigits(Slice(data, 12, 16)) ELSE Undefined,
        frequency   |-> IF Len(data) > 16
                        THEN DecodeDigits(Slice(data, 16, 20)) ELSE Undefined]

\* parseMeasurement(data); {} is the record with every quantity undefined
ParseMeasurement(data) ==
  IF Len(data) < MinPayload
  THEN [voltage |-> Undefined, current |-> Undefined, power |-> Undefined,
        powerFactor |-> Undefined, frequency |-> Undefined]
  ELSE [voltage     |-> DecodeDigits(Slice(data, 0, 4)),
        current     |-> DecodeDigits(Slice(data, 4, 8)),
        power       |-> DecodeDigits(Slice(data, 8, 12)),
        powerFactor |-> IF Len(data) >= 16
                        THEN DecodeDigits(Slice(data, 12, 16)) ELSE Undefined,
        frequency   |-> IF Len(data) >= 20
                        THEN DecodeDigits(Slice(data, 16, 20)) ELSE Undefined]

NoRecord == ParseMeasurement(<<>>)

\* parsed.voltage !== undefined
VoltageDefined(data) == ParseMeasurement(data).voltage # Undefined

\* requestMeasurement: the fallback timer after the request
FallbackTimeout(interval) == Max(FallbackFloor, interval + FallbackMargin)

NoTimerB == [kind |-> "none", wait |-> NoTimer]

AfterRequest(auto, interval, timer) ==
  IF auto
  THEN [kind |-> "fallback", wait |-> FallbackTimeout(interval)]
  ELSE timer

\* The chunks the serial port delivers: bytes of readings as the meter
\* encodes them, cut at several places.
Voltage == <<2, 4, 18, 3>>          \* 242.3
Current == <<16, 0, 0, 5>>          \* 0.005
Power == <<17, 0, 0, 0>>            \* 1.000
PowerFactor == <<16, 9, 8, 7>>      \* 0.987
Frequency == <<5, 16, 0, 0>>        \* 50.00

Chunks ==
  { <<Marker>>,
    <<Marker>> \o Voltage \o Current \o Power,
    PowerFactor \o Frequency,
    Voltage,
    <<Marker, 5, Marker>> }

\* enableAutoMode(intervalMs): no minimum interval, or one clock step
Intervals == {0, Quantum}

\* now - lastRequestTime is only compared with minInterval
SinceCap == Quantum

\* tx: requests written in the step; cause: what made requestMeasurement
\* run ("call", "data", "delayed", "fallback"; "" when it did not run);
\* timer: what setting a scheduler timer in the step did to the one pending
\* ("" when none was set)
NoOutB ==
  [tx |-> 0, cause |-> "", timer |-> "", event |-> "none", ran |-> FALSE,
   before |-> <<>>,
   resolved |-> FALSE, payload |-> <<>>, parsed |-> NoRecord,
   timestamp |-> 0, markerAt |-> 0,
   midway |-> FALSE, settle |-> "none"]

FreeGet == [state |-> "free"]

\* Mutant of ClearTimeout: the timer is left pending.
ClearTimeoutKeeps(timer) == timer

\* if (this.fallbackTimer) clearTimeout(this.fallbackTimer): the timer that
\* is pending afterwards
ClearTimeout(timer) == NoTimerB

\* this.fallbackTimer = setTimeout(...) after that clearTimeout, previous
\* being the timer pending before: it was the only one ("armed"), it was
\* cancelled ("replaced"), or it stays pending beside the new one
\* ("orphaned")
SetTimer(previous) ==
  IF previous.kind = "none" THEN "armed"
  ELSE IF ClearTimeout(previous).kind = "none" THEN "replaced"
  ELSE "orphaned"

Markers(buf) == Cardinality({ i \in 1..Len(buf) : buf[i] = Marker })

\* Mutant of IntervalElapsed: the minimum interval is not tested.
IntervalElapsedAlways(since, interval) == TRUE

\* timeSinceLastRequest >= this.minInterval
IntervalElapsed(since, interval) == since >= interval

\* Mutant of NextRequestScheduled: sending the request does not set the flag.
NextRequestUnscheduled(flag, sendNow, resolved) ==
  IF resolved THEN FALSE ELSE flag

\* this.nextRequestScheduled after a run of processBuffer: set to true
\* before the immediate request, to false once a frame is resolved
NextRequestScheduled(flag, sendNow, resolved) ==
  IF resolved THEN FALSE
  ELSE IF sendNow THEN TRUE ELSE flag

\* Mutant of Accumulate: the chunk replaces what was buffered.
AccumulateLatest(buf, data) == data

\* the data handler: this.buffer = Buffer.concat([this.buffer, data])
Accumulate(buf, data) == buf \o data

\* Mutant of Reschedule: processBuffer is not run again on the residue.
RescheduleNever(pending, resolved, rest) == pending

\* if (this.buffer.length > 0) setImmediate(() => this.processBuffer()),
\* reached only after a frame was resolved: the callbacks queued afterwards
Reschedule(pending, resolved, rest) ==
  pending + (IF resolved /\ Len(rest) > 0 THEN 1 ELSE 0)

\* processBuffer() on this.buffer = buf, with currentMeasurementTime = cmt,
\* pending counting the setImmediate callbacks still to run after this one,
\* Date.now() = now (as an arrival number) and marks the arrivals of the
\* markers in buf
ProcessBuffer(buf, cmt, pending, now, marks) ==
  LET ackIndex == IndexOf(buf, Marker, 0)
      trigger  == /\ ackIndex >= 0
                  /\ autoModeB
                  /\ ~nextRequestScheduled
                  /\ Len(buf) >= ackIndex + TriggerLength
      sendNow  == trigger /\ IntervalElapsed(sinceRequest, minInterval)
      delayed  == /\ trigger /\ ~sendNow
                  /\ minInterval > 0 /\ ~delayedRequestScheduled
      end      == IF ackIndex >= 0 THEN MeasurementEndIndex(buf, ackIndex) ELSE -1
      resolved == end >= 0
      data     == IF resolved THEN Slice(buf, ackIndex + 1, end) ELSE <<>>
      rest     == IF resolved THEN Slice(buf, end, Len(buf)) ELSE buf
      parsed   == ParseMeasurement(data)
      emitted  == resolved /\ autoModeB /\ parsed.voltage # Undefined
  IN /\ buffer' = rest
     /\ fallbackTimer' =
          IF sendNow THEN AfterRequest(autoModeB, minInterval, NoTimerB)
          ELSE IF delayed
               THEN [kind |-> "delayed", wait |-> minInterval - sinceRequest]
               ELSE fallbackTimer
     /\ sinceRequest' = IF sendNow THEN 0 ELSE sinceRequest
     /\ nextRequestScheduled' =
          NextRequestScheduled(nextRequestScheduled, sendNow, resolved)
     /\ delayedRequestScheduled' =
          IF delayed THEN TRUE ELSE delayedRequestScheduled
     /\ currentMeasurementTime' = IF resolved THEN 0 ELSE cmt
     /\ immediates' = Reschedule(pending, resolved, rest)
     /\ held' = IF resolved /\ held > 0 THEN held - 1 ELSE held
     /\ stamps' = IF resolved THEN Tail(marks) ELSE marks
     /\ outB' = [NoOutB EXCEPT
                   !.tx = IF sendNow THEN 1 ELSE 0,
                   !.cause = IF sendNow THEN "data" ELSE "",
                   !.timer = IF sendNow \/ delayed
                             THEN SetTimer(fallbackTimer) ELSE "",
                   !.event = IF emitted THEN "record" ELSE "none",
                   !.ran = TRUE,
                   !.before = buf,
                   !.resolved = resolved,
                   !.payload = data,
                   !.parsed = parsed,
                   !.timestamp = IF resolved
                                 THEN (IF cmt # 0 THEN cmt ELSE now) ELSE 0,
                   !.markerAt = IF resolved THEN Head(marks) ELSE 0,
                   !.midway = resolved /\ held > 0 /\ quiet]
     /\ UNCHANGED <<portB, autoModeB, minInterval, get, quiet, session>>

\* connect(): new SerialPort(config, callback) opens the port
ConnectB ==
  /\ portB \in {"none", "closed"}
  /\ portB' = "opening"
  /\ outB' = NoOutB
  /\ UNCHANGED <<buffer, autoModeB, fallbackTimer, nextRequestScheduled,
                 delayedRequestScheduled, currentMeasurementTime, minInterval,
                 sinceRequest, immediates, get, rxChunks, quiet, held,
                 stamps, session>>

\* port.on('open')
PortOpenedB ==
  /\ portB = "opening"
  /\ portB' = "open"
  /\ outB' = NoOutB
  /\ UNCHANGED <<buffer, autoModeB, fallbackTimer, nextRequestScheduled,
                 delayedRequestScheduled, currentMeasurementTime, minInterval,
                 sinceRequest, immediates, get, rxChunks, quiet, held,
                 stamps, session>>

\* the constructor callback with err
PortOpenFailedB ==
  /\ portB = "opening"
  /\ portB' = "closed"
  /\ outB' = NoOutB
  /\ UNCHANGED <<buffer, autoModeB, fallbackTimer, nextRequestScheduled,
                 delayedRequestScheduled, currentMeasurementTime, minInterval,
                 sinceRequest, immediates, get, rxChunks, quiet, held,
                 stamps, session>>

\* port.on('data'): stamp the chunk, append it, run processBuffer
DataB(data) ==
  /\ portB = "open"
  /\ rxChunks < MaxChunks
  /\ immediates < MaxImmediates
  /\ rxChunks' = rxChunks + 1
  /\ ProcessBuffer(Accumulate(buffer, data),
                   IF IndexOf(data, Marker, 0) >= 0 /\ currentMeasurementTime = 0
                   THEN rxChunks + 1 ELSE currentMeasurementTime,
                   immediates,
                   rxChunks + 1,
                   stamps \o [i \in 1..Markers(data) |-> rxChunks + 1])

\* setImmediate(() => this.processBuffer())
ImmediateB ==
  /\ immediates > 0
  /\ ProcessBuffer(buffer, currentMeasurementTime, immediates - 1,
                   rxChunks, stamps)
  /\ UNCHANGED rxChunks

\* enableAutoMode(intervalMs)
EnableAutoModeB(intervalMs) ==
  /\ portB = "open"
  /\ autoModeB' = TRUE
  /\ minInterval' = intervalMs
  /\ sinceRequest' = 0                  \* requestMeasurement: lastRequestTime = now
  /\ fallbackTimer' = AfterRequest(TRUE, intervalMs, fallbackTimer)
  /\ session' = TRUE
  /\ quiet' = FALSE
  /\ held' = 0
  /\ outB' = [NoOutB EXCEPT !.tx = 1, !.cause = "call",
                           !.timer = SetTimer(fallbackTimer)]
  /\ UNCHANGED <<portB, buffer, nextRequestScheduled, delayedRequestScheduled,
                 currentMeasurementTime, immediates, get, rxChunks,
                 stamps>>

\* disableAutoMode(), called like the other operations on a connected driver
DisableAutoModeB ==
  /\ portB = "open"
  /\ autoModeB' = FALSE
  /\ fallbackTimer' = NoTimerB
  /\ session' = FALSE
  /\ quiet' = TRUE
  /\ held' = Markers(buffer)
  /\ outB' = NoOutB
  /\ UNCHANGED <<portB, buffer, nextRequestScheduled, delayedRequestScheduled,
                 currentMeasurementTime, minInterval, sinceRequest, immediates,
                 get, rxChunks,
                 stamps>>

\* getMeasurement(): the promise with its 2000 ms timeout, the emit of the
\* callback, the temporary enabling, the request and the 1500 ms restore
\* timer.  The caller awaits the promise before it calls getMeasurement again.
GetMeasurementB ==
  /\ portB = "open"
  /\ get.state = "free"
  /\ get' = [state |-> "waiting", reject |-> GetTimeout,
             restore |-> RestoreDelay, wasAutoMode |-> autoModeB]
  /\ autoModeB' = TRUE
  /\ sinceRequest' = 0
  /\ fallbackTimer' = AfterRequest(TRUE, minInterval, fallbackTimer)
  /\ quiet' = FALSE
  /\ held' = 0
  /\ outB' = [NoOutB EXCEPT !.tx = 1, !.cause = "call", !.event = "listener",
                           !.timer = SetTimer(fallbackTimer)]
  /\ UNCHANGED <<portB, buffer, nextRequestScheduled, delayedRequestScheduled,
                 currentMeasurementTime, minInterval, immediates, rxChunks,
                 stamps, session>>

\* the restore timer of getMeasurement
RestoreFireB ==
  /\ get.state = "waiting"
  /\ get.restore = 0
  /\ autoModeB' = get.wasAutoMode
  /\ get' = [get EXCEPT !.restore = NoTimer]
  /\ outB' = NoOutB
  /\ UNCHANGED <<portB, buffer, fallbackTimer, nextRequestScheduled,
                 delayedRequestScheduled, currentMeasurementTime, minInterval,
                 sinceRequest, immediates, rxChunks, quiet, held,
                 stamps, session>>

\* the timeout timer of getMeasurement
RejectFireB ==
  /\ get.state = "waiting"
  /\ get.reject = 0
  /\ get' = FreeGet
  /\ outB' = [NoOutB EXCEPT !.settle = "rejected"]
  /\ UNCHANGED <<portB, buffer, autoModeB, fallbackTimer, nextRequestScheduled,
                 delayedRequestScheduled, currentMeasurementTime, minInterval,
                 sinceRequest, immediates, rxChunks, quiet, held,
                 stamps, session>>

\* the fallback timer set by requestMeasurement
FallbackFireB ==
  /\ fallbackTimer.kind = "fallback"
  /\ fallbackTimer.wait = 0
  /\ fallbackTimer' = AfterRequest(autoModeB, minInterval, NoTimerB)
  /\ sinceRequest' = IF autoModeB THEN 0 ELSE sinceRequest
  /\ outB' = [NoOutB EXCEPT !.tx = IF autoModeB THEN 1 ELSE 0,
                           !.cause = IF autoModeB THEN "fallback" ELSE "",
                           !.timer = IF autoModeB THEN SetTimer(NoTimerB) ELSE ""]
  /\ UNCHANGED <<portB, buffer, autoModeB, nextRequestScheduled,
                 delayedRequestScheduled, currentMeasurementTime, minInterval,
                 immediates, get, rxChunks, quiet, held,
                 stamps, session>>

\* the delayed-request timer set by processBuffer
DelayedFireB ==
  /\ fallbackTimer.kind = "delayed"
  /\ fallbackTimer.wait = 0
  /\ fallbackTimer' = AfterRequest(autoModeB, minInterval, NoTimerB)
  /\ delayedRequestScheduled' = IF autoModeB THEN FALSE ELSE delayedRequestScheduled
  /\ sinceRequest' = IF autoModeB THEN 0 ELSE sinceRequest
  /\ outB' = [NoOutB EXCEPT !.tx = IF autoModeB THEN 1 ELSE 0,
                           !.cause = IF autoModeB THEN "delayed" ELSE "",
                           !.timer = IF autoModeB THEN SetTimer(NoTimerB) ELSE ""]
  /\ UNCHANGED <<portB, buffer, autoModeB, nextRequestScheduled,
                 currentMeasurementTime, minInterval, immediates, get,
                 rxChunks, quiet, held,
                 stamps, session>>

\* disconnect() on an open port: disableAutoMode if enabled, then port.close
DisconnectB ==
  /\ portB = "open"
  /\ autoModeB' = FALSE
  /\ fallbackTimer' = IF autoModeB THEN NoTimerB ELSE fallbackTimer
  /\ session' = IF autoModeB THEN FALSE ELSE session
  /\ quiet' = IF autoModeB THEN TRUE ELSE quiet
  /\ held' = IF autoModeB THEN Markers(buffer) ELSE held
  /\ portB' = "closing"
  /\ outB' = NoOutB
  /\ UNCHANGED <<buffer, nextRequestScheduled, delayedRequestScheduled,
                 currentMeasurementTime, minInterval, sinceRequest, immediates,
                 get, rxChunks,
                 stamps>>

\* the callback of port.close
DisconnectedB ==
  /\ portB = "closing"
  /\ portB' = "closed"
  /\ outB' = NoOutB
  /\ UNCHANGED <<buffer, autoModeB, fallbackTimer, nextRequestScheduled,
                 delayedRequestScheduled, currentMeasurementTime, minInterval,
                 sinceRequest, immediates, get, rxChunks, quiet, held,
                 stamps, session>>

NoTimerDueB ==
  /\ immediates = 0
  /\ fallbackTimer.wait # 0
  /\ get.state = "waiting" => get.restore # 0 /\ get.reject # 0

Elapse(wait) == IF wait = NoTimer THEN NoTimer ELSE wait - Quantum

\* the clock advances by one step of the grid
TickB ==
  /\ NoTimerDueB
  /\ \/ fallbackTimer.kind # "none"
     \/ get.state = "waiting"
     \/ sinceRequest < SinceCap
  /\ fallbackTimer' = [fallbackTimer EXCEPT !.wait = Elapse(@)]
  /\ get' = IF get.state = "waiting"
             THEN [get EXCEPT !.restore = Elapse(@), !.reject = Elapse(@)]
             ELSE get
  /\ sinceRequest' = IF sinceRequest < SinceCap THEN sinceRequest + Quantum
                     ELSE sinceRequest
  /\ outB' = NoOutB
  /\ UNCHANGED <<portB, buffer, autoModeB, nextRequestScheduled,
                 delayedRequestScheduled, currentMeasurementTime, minInterval,
                 immediates, rxChunks, quiet, held,
                 stamps, session>>

-----------------------------------------------------------------------------
InitB ==
  /\ portB = "none"
  /\ buffer = <<>>
  /\ autoModeB = FALSE
  /\ fallbackTimer = NoTimerB
  /\ nextRequestScheduled = FALSE
  /\ delayedRequestScheduled = FALSE
  /\ currentMeasurementTime = 0
  /\ minInterval = 0
  /\ sinceRequest = SinceCap
  /\ immediates = 0
  /\ get = FreeGet
  /\ rxChunks = 0
  /\ quiet = FALSE
  /\ held = 0
  /\ stamps = <<>>
  /\ session = FALSE
  /\ outB = NoOutB

-----------------------------------------------------------------------------
(* The decoders as functions: a call with an argument drawn from a set of  *)
(* samples, and its return.                                                *)

NotCalled == [kind |-> "none"]
NotReturned == [kind |-> "none"]

\* Payloads: the first bytes of streams of readings, of every length
PayloadStreams ==
  { Voltage \o Current \o Power \o PowerFactor \o Frequency \o Voltage,
    <<0, 0, 0, 0, 0, 0, 0, 0, 0, 0, 0, 0, 0, 0, 0, 0, 0, 0, 0, 0, 0, 0, 0, 0>>,
    <<18, 19, 1, 1, 10, 0, 0, 0, 32, 3, 4, 5, 49, 6, 7, 8, 9, 16, 2, 31,
      17, 1, 2, 3>> }

Payloads ==
  { SubSeq(p, 1, n) : p \in PayloadStreams, n \in 0..MaxPayload }

\* Groups of four bytes: digits with and without the point flag, high
\* nibbles other than 0 and 1, a low nibble that is no decimal digit
GroupBytes == {0, 3, 16, 18, 49, 10}

Groups == { <<a, b, c, d>> : a \in GroupBytes, b \in GroupBytes,
                             c \in GroupBytes, d \in GroupBytes }

\* Lines for parseMeasurement of Meter A: a tag alone, a tag with a value,
\* and the lines of the protocol description and of the test script
Tags ==
  {
    <<"W">>, <<"V", "A", "R">>, <<"P", "F">>, <<"D", "C", "V">>,
    <<"A", "C", "V">>, <<"D", "C", "A">>, <<"A", "C", "A">>, <<"U">>,
    <<"U", "1">>, <<"U", "2">>, <<"U", "3">>, <<"U", "9">>,
    <<"U", "1", "2">>, <<"I">>, <<"I", "1">>, <<"I", "2">>, <<"I", "3">>,
    <<"I", "x">>, <<"I", "9">>, <<"I", "1", "2">>, <<"X">>, <<"w">>,
    <<"v", "a", "l", "u", "e", "O", "f">>, <<>> }

Values ==
  {
    <<>>, <<"1", ".", "0", "E", "+", "0">>,
    <<"-", "0", ".", "0", "0", "0", "E", "+", "0">>,
    <<"2", "3", "8", ".", "5", "E", "+", "0">>,
    <<"0", ".", "3", "E", "-", "3">>,
    <<"o", "v", "e", "r", "f", "l", "o", "w">>,
    <<"-", "1", "2", ".", "5", "E", "+", "1">>, <<"5">>,
    <<"0", ".", "5", "V">>, <<".", "5", "e", "1", "x">>, <<"1", "=", "2">>,
    <<"I", "n", "f", "i", "n", "i", "t", "y">>, <<"+">>, <<"E", "+", "0">> }

SampleLines ==
  {
    <<"U", "1", "=", "0", ".", "0", "1", "E", "+", "0", " ", "I", "1", "=", "0", ".", "0", "E", "-", "3", " ", "P", "F", "=", "o", "v", "e", "r", "f", "l", "o", "w">>,
    <<"U", "1", "=", "0", ".", "0", "1", "E", "+", "0", " ", "I", "1", "=", "0", ".", "0", "E", "-", "3", " ", " ", " ", "W", "=", "-", "0", ".", "0", "0", "0", "E", "+", "0">>,
    <<"U", "3", " ", "I", "1", " ", "W", "=", "2", "0", "0", ".", "0", "E", "+", "0">>,
    <<"U", "3", "=", "2", "3", "8", ".", "5", "E", "+", "0", " ", "I", "1", "=", "0", ".", "3", "E", "-", "3", " ", "W", "=", "0", ".", "0", "2", "E", "+", "0">>,
    <<"U", "1", " ", "I", "1", " ", "W", "=", "1", ".", "0", "E", "+", "0">>,
    <<"U", "2", " ", "I", "2", " ", "W", "=", "1", "0", ".", "0", "E", "+", "0">>,
    <<"U", "3", " ", "I", "3", " ", "W", "=", "1", "0", "0", ".", "0", "E", "+", "0">>,
    <<"U", "1", " ", "I", "x", " ", "W", "=", "5", ".", "0", "E", "+", "0">>,
    <<" ", "U", "2", "=", "5", " ", "U", "1">>,
    <<"W", "=", "1", " ", "P", "F", "=", "o", "v", "e", "r", "f", "l", "o", "w">>,
    <<"I", "1", " ", "I", "3", "=", "2", " ">> }

Lines ==
  Tags \cup { t \o <<"=">> \o v : t \in Tags, v \in Values } \cup SampleLines

DecoderInputs ==
  { [kind |-> "payload", value |-> p] : p \in Payloads }
    \cup { [kind |-> "group", value |-> g] : g \in Groups }
    \cup { [kind |-> "line", value |-> l] : l \in Lines }

\* parseMeasurement(data) of Meter B
DecodePayload ==
  /\ dIn.kind = "payload"
  /\ dOut = NotReturned
  /\ dOut' = [kind |-> "record", value |-> ParseMeasurement(dIn.value)]
  /\ UNCHANGED <<dIn, varsA, varsB>>

\* decodeDigits(bytes) of Meter B
DecodeGroup ==
  /\ dIn.kind = "group"
  /\ dOut = NotReturned
  /\ dOut' = [kind |-> "value", value |-> DecodeDigits(dIn.value)]
  /\ UNCHANGED <<dIn, varsA, varsB>>

\* parseMeasurement(response) of Meter A
DecodeLine ==
  /\ dIn.kind = "line"
  /\ dOut = NotReturned
  /\ dOut' = [kind |-> "result", value |-> ParseMeasurementA(dIn.value)]
  /\ UNCHANGED <<dIn, varsA, varsB>>

(* Meter B: the framer alone, fed a stream in chunks with auto mode held   *)
(* enabled: the data handler and processBuffer as far as the buffer and    *)
(* the 'measurement' events go.                                            *)

\* Streams of the meter.  The first: bytes before the first marker, a
\* frame of 20 bytes followed by two more bytes before the next marker, a
\* frame cut short after 12 bytes by a marker, and that marker alone.  The
\* second: a frame too short to be decoded, an empty frame, a frame of 16
\* bytes and a last marker.
Streams ==
  { <<5, Marker>> \o Voltage \o Current \o Power \o PowerFactor \o Frequency
      \o <<2, 4, Marker>> \o Voltage \o Current \o Power \o <<Marker>>,
    <<Marker, 5, Marker, Marker>> \o Current \o Power \o Voltage
      \o PowerFactor \o <<Marker>> }

\* the places where a stream of n bytes is cut: at most k places from
\* lo on, in increasing order
RECURSIVE CutsFrom(_, _, _)
CutsFrom(lo, n, k) ==
  {<<>>} \cup
    (IF k = 0 THEN {}
     ELSE UNION { { <<at>> \o c : c \in CutsFrom(at + 1, n, k - 1) } :
                  at \in lo..(n - 1) })

\* the chunks of stream cut after the bytes numbered in cuts
RECURSIVE Split(_, _)
Split(stream, cuts) ==
  IF cuts = <<>> THEN <<stream>>
  ELSE <<SubSeq(stream, 1, Head(cuts))>>
         \o Split(SubSeq(stream, Head(cuts) + 1, Len(stream)),
                  [i \in 1..(Len(cuts) - 1) |-> cuts[i + 1] - Head(cuts)])

StreamInputs ==
  UNION { { [kind |-> "stream", stream |-> st, cuts |-> c,
               chunks |-> Split(st, c)] :
              c \in CutsFrom(1, Len(st), MaxCuts) } :
          st \in Streams }

\* processBuffer() on this.buffer = buf with autoModeEnabled true: whether a
\* frame is resolved, its payload, the buffer afterwards and the event
Framed(buf) ==
  LET ackIndex == IndexOf(buf, Marker, 0)
      end      == IF ackIndex >= 0 THEN MeasurementEndIndex(buf, ackIndex) ELSE -1
      resolved == end >= 0
      data     == IF resolved THEN Slice(buf, ackIndex + 1, end) ELSE <<>>
  IN [resolved |-> resolved,
      payload  |-> data,
      taken    |-> IF resolved THEN Slice(buf, 0, end) ELSE <<>>,
      rest     |-> IF resolved THEN Slice(buf, end, Len(buf)) ELSE buf,
      emitted  |-> resolved /\ VoltageDefined(data)]

IdleFramer ==
  [kind |-> "framer", buffer |-> <<>>, immediates |-> 0, records |-> <<>>,
   consumed |-> <<>>]

FramerOf(out) == IF out.kind = "framer" THEN out ELSE IdleFramer

\* the framer after processBuffer() on buf, pending callbacks being queued
AfterProcessBuffer(framer, buf, pending) ==
  LET f == Framed(buf)
  IN [kind       |-> "framer",
      buffer     |-> f.rest,
      immediates |-> Reschedule(pending, f.resolved, f.rest),
      records    |-> IF f.emitted
                     THEN Append(framer.records, ParseMeasurement(f.payload))
                     ELSE framer.records,
      consumed   |-> framer.consumed \o f.taken]

\* port.on('data') with the next chunk of the stream
FramerData ==
  /\ dIn.kind = "stream"
  /\ dIn.chunks # <<>>
  /\ dIn' = [dIn EXCEPT !.chunks = Tail(@)]
  /\ dOut' = AfterProcessBuffer(FramerOf(dOut),
                                Accumulate(FramerOf(dOut).buffer,
                                           Head(dIn.chunks)),
                                FramerOf(dOut).immediates)
  /\ UNCHANGED <<varsA, varsB>>

\* setImmediate(() => this.processBuffer())
FramerImmediate ==
  /\ dIn.kind = "stream"
  /\ FramerOf(dOut).immediates > 0
  /\ dOut' = AfterProcessBuffer(dOut, dOut.buffer, dOut.immediates - 1)
  /\ UNCHANGED <<dIn, varsA, varsB>>

InitD ==
  /\ dIn \in DecoderInputs \cup StreamInputs
  /\ dOut = NotReturned

NextD ==
  \/ DecodePayload
  \/ DecodeGroup
  \/ DecodeLine
  \/ FramerData
  \/ FramerImmediate

Init == InitA /\ InitB /\ dIn = NotCalled /\ dOut = NotReturned

NextA ==
  \/ ConnectA /\ UNCHANGED <<varsB, varsD>>
  \/ PortOpenedA /\ UNCHANGED <<varsB, varsD>>
  \/ PortOpenFailedA /\ UNCHANGED <<varsB, varsD>>
  \/ \E raw \in RawLines : DataLineA(raw) /\ UNCHANGED <<varsB, varsD>>
  \/ \E r \in UserQueries : SendAndWait(r.cmd, r.timeoutMs) /\ UNCHANGED <<varsB, varsD>>
  \/ Identify /\ UNCHANGED <<varsB, varsD>>
  \/ \E i \in 1..MaxQueries : Poll(i) /\ UNCHANGED <<varsB, varsD>>
  \/ EnableAutoModeA /\ UNCHANGED <<varsB, varsD>>
  \/ DisableAutoModeA /\ UNCHANGED <<varsB, varsD>>
  \/ \E func \in Functions : SetFunction(func) /\ UNCHANGED <<varsB, varsD>>
  \/ EnableAutoRange /\ UNCHANGED <<varsB, varsD>>
  \/ DisableAutoRange /\ UNCHANGED <<varsB, varsD>>
  \/ \E range \in Ranges : SetVoltageRange(range) /\ UNCHANGED <<varsB, varsD>>
  \/ \E range \in Ranges : SetCurrentRange(range) /\ UNCHANGED <<varsB, varsD>>
  \/ SetterDoneA /\ UNCHANGED <<varsB, varsD>>
  \/ DisconnectA /\ UNCHANGED <<varsB, varsD>>
  \/ DisconnectSettledA /\ UNCHANGED <<varsB, varsD>>
  \/ DisconnectedA /\ UNCHANGED <<varsB, varsD>>
  \/ TickA /\ UNCHANGED <<varsB, varsD>>

NextB ==
  \/ ConnectB /\ UNCHANGED <<varsA, varsD>>
  \/ PortOpenedB /\ UNCHANGED <<varsA, varsD>>
  \/ PortOpenFailedB /\ UNCHANGED <<varsA, varsD>>
  \/ \E data \in Chunks : DataB(data) /\ UNCHANGED <<varsA, varsD>>
  \/ ImmediateB /\ UNCHANGED <<varsA, varsD>>
  \/ \E intervalMs \in Intervals : EnableAutoModeB(intervalMs) /\ UNCHANGED <<varsA, varsD>>
  \/ DisableAutoModeB /\ UNCHANGED <<varsA, varsD>>
  \/ GetMeasurementB /\ UNCHANGED <<varsA, varsD>>
  \/ RestoreFireB /\ UNCHANGED <<varsA, varsD>>
  \/ RejectFireB /\ UNCHANGED <<varsA, varsD>>
  \/ FallbackFireB /\ UNCHANGED <<varsA, varsD>>
  \/ DelayedFireB /\ UNCHANGED <<varsA, varsD>>
  \/ DisconnectB /\ UNCHANGED <<varsA, varsD>>
  \/ DisconnectedB /\ UNCHANGED <<varsA, varsD>>
  \/ TickB /\ UNCHANGED <<varsA, varsD>>

SpecA == Init /\ [][NextA]_vars

SpecB == Init /\ [][NextB]_vars

InitDecoders == InitA /\ InitB /\ InitD

SpecD == InitDecoders /\ [][NextD]_vars

-----------------------------------------------------------------------------
(* Meter A: properties of the command/response correlator.                 *)

QueryCommands == {"VAL?", "*IDN?", "VERSION?"}

ResolvedA == outA.settle.kind = "resolved"
RejectedA == outA.settle.kind = "rejected"

(* C4 as stated: two overlapping queries resolve in first-come order, the  *)
(* first-issued with the first line and the second-issued with the next    *)
(* one, so that no line answers both: a query that resolves after a query  *)
(* it overlapped has resolved receives another line than that query.       *)
C4_OverlapFifo ==
  (ResolvedA /\ outA.settle.peerAnswer # 0)
    => outA.settle.answer.seq # outA.settle.peerAnswer

(* C4 amended: when exactly two queries overlap, both read the head of the *)
(* shared queue, which the second transmit has emptied; if both resolve    *)
(* they receive the same line, a line received after the second transmit.  *)
C4_OverlapSharesHead ==
  (ResolvedA /\ outA.settle.peers = 1 /\ outA.settle.peerAnswer # 0)
    => /\ outA.settle.answer.seq = outA.settle.peerAnswer
       /\ outA.settle.answer.seq > outA.settle.rxAtClear

C4_Witness ==
  ResolvedA /\ outA.settle.peers = 1 /\ outA.settle.peerAnswer # 0

(* C5: a transmit of sendAndWait leaves the queue empty, and a query that  *)
(* no other query overlapped resolves with the first non-empty cleaned     *)
(* line received after its transmit, never with a line received before.    *)
C5_AnswerIsFirstLineAfterTransmit ==
  /\ outA.tx \in QueryCommands => responseQueue = <<>>
  /\ (ResolvedA /\ outA.settle.peers = 0)
       => /\ outA.settle.answer.seq = outA.settle.firstRx
          /\ outA.settle.answer.seq > outA.settle.rxAtClear
          /\ outA.settle.answer.line # <<>>
          /\ \E raw \in RawLines : outA.settle.answer.line = CleanLine(raw)

C5_Witness ==
  /\ ResolvedA /\ outA.settle.peers = 0
  /\ outA.settle.rxAtClear > 0

(* C6: a query after whose transmit no non-empty line is received never    *)
(* resolves; it keeps a poll armed and is rejected with the timeout error  *)
(* at the first poll later than timeoutMs after the transmit, never        *)
(* earlier than timeoutMs (1000 ms by default).                            *)
C6_TimeoutWithoutLine ==
  /\ RejectedA => outA.settle.elapsed >= outA.settle.timeoutMs
  /\ ResolvedA => outA.settle.firstRx # 0
  /\ \A i \in Pending(queries) :
        /\ queries[i].wait \in {0, PollPeriod}
        /\ queries[i].elapsed <= queries[i].timeoutMs + PollPeriod
        /\ (queries[i].elapsed > queries[i].timeoutMs /\ responseQueue = <<>>)
              => queries[i].wait = 0

C6_Witness ==
  /\ RejectedA
  /\ outA.settle.firstRx = 0
  /\ outA.settle.timeoutMs = DefaultTimeout
  /\ outA.settle.elapsed = DefaultTimeout + PollPeriod

(* C7 as stated: a query resolves only with a line received within         *)
(* timeoutMs of its transmit.                                              *)
C7_OnlyLinesWithinDeadline ==
  ResolvedA => ~outA.settle.late

(* C7 amended: checkResponse reads the queue before it tests the deadline, *)
(* so a query resolves with the queue's head at any poll up to and         *)
(* including the first poll after the deadline; with polls every 50 ms     *)
(* that is a line received at most timeoutMs + 50 ms after the transmit.   *)
(* The query fails with the timeout error only if that poll finds the      *)
(* queue empty.                                                            *)
C7_ResolvesUpToOnePollAfterDeadline ==
  /\ ResolvedA => outA.settle.elapsed <= outA.settle.timeoutMs + PollPeriod
  /\ RejectedA => /\ responseQueue = <<>>
                  /\ outA.settle.elapsed > outA.settle.timeoutMs

C7_Witness ==
  ResolvedA /\ outA.settle.late /\ outA.settle.elapsed > outA.settle.timeoutMs

(* C8 as stated: the queries of identify wait longer than the 1000 ms      *)
(* default.                                                                *)
C8_IdentifyWaitsLonger ==
  \A i \in Pending(queries) :
     queries[i].owner \in {"idn", "version"}
       => queries[i].timeoutMs > DefaultTimeout

(* C8 amended: identify issues '*IDN?' and 'VERSION?' with the default     *)
(* deadline of 1000 ms, like every other query: each is rejected at the    *)
(* first poll later than 1000 ms after its transmit.                       *)
C8_IdentifyUsesDefault ==
  /\ \A i \in Pending(queries) :
        queries[i].owner \in {"idn", "version"}
          => /\ queries[i].timeoutMs = DefaultTimeout
             /\ queries[i].elapsed <= DefaultTimeout + PollPeriod
  /\ (RejectedA /\ outA.settle.owner \in {"idn", "version"})
        => outA.settle.elapsed = DefaultTimeout + PollPeriod

C8_Witness ==
  RejectedA /\ outA.settle.owner = "version"

(* C9: for both drivers, once disconnect has completed no timer of the     *)
(* driver is pending (Meter A query polls, Meter B scheduler and           *)
(* getMeasurement timers), and a query or getMeasurement outstanding at    *)
(* the close is neither resolved nor rejected afterwards.                  *)
C9_NoTimerAfterDisconnect ==
  /\ (portA = "closed" /\ discA.pc = "idle")
       => /\ \A i \in Pending(queries) : queries[i].wait = NoTimer
          /\ outA.settle.kind = "none"
  /\ portB = "closed"
       => /\ fallbackTimer.kind = "none"
          /\ get.state = "waiting"
               => get.restore = NoTimer /\ get.reject = NoTimer
          /\ outB.settle = "none"

-----------------------------------------------------------------------------
(* Meter A: events.                                                        *)

LineQueued == rxCountA' # rxCountA /\ Len(responseQueue') > Len(responseQueue)
QueuedLine == responseQueue'[Len(responseQueue')].line

(* C11 as stated: while auto mode is enabled every received line that is   *)
(* not empty after cleaning produces a 'measurement' event, whether or not *)
(* a query is pending; while auto mode is disabled no line produces one.   *)
C11_EveryLineBroadcast ==
  [][LineQueued => (outA'.event <=> autoModeA)]_vars

(* C11 amended: while auto mode is enabled, a received line that is not    *)
(* empty after cleaning produces one 'measurement' event exactly when its  *)
(* decoded record has a value, that is when it holds a token TAG=VALUE     *)
(* with TAG in the function vocabulary, whether or not a query is pending; *)
(* a line without such a token (a status line), a line that is empty after *)
(* cleaning and any line received while auto mode is disabled produce no   *)
(* event.                                                                  *)
C11_LinesWithValueBroadcast ==
  [][ /\ LineQueued => (outA'.event <=> (autoModeA /\ ValueDefined(QueuedLine)))
      /\ ~LineQueued => ~outA'.event ]_vars

C11_Witness ==
  /\ outA.event
  /\ Pending(queries) # {}
  /\ responseQueue # <<>>

-----------------------------------------------------------------------------
(* Meter B: properties of the framer and of the auto mode.                 *)

FirstMarker(buf) == IndexOf(buf, Marker, 0)
SecondMarker(buf) == IndexOf(buf, Marker, FirstMarker(buf) + 1)

Preempted(buf) ==
  /\ FirstMarker(buf) >= 0
  /\ SecondMarker(buf) >= 0
  /\ SecondMarker(buf) < FirstMarker(buf) + FrameLength

(* C1: when processBuffer runs on a buffer with a marker at offset a and   *)
(* a second marker at offset b < a + 21, it resolves a truncated frame     *)
(* whose payload is exactly the bytes between the two markers, and the     *)
(* buffer afterwards is the rest from the second marker on, so that no     *)
(* byte of the second frame is consumed.                                   *)
C1_PreemptedFrame ==
  (outB.ran /\ Preempted(outB.before))
    => /\ outB.resolved
       /\ outB.payload =
            [i \in 1..(SecondMarker(outB.before) - FirstMarker(outB.before) - 1)
               |-> outB.before[FirstMarker(outB.before) + 1 + i]]
       /\ buffer =
            [i \in 1..(Len(outB.before) - SecondMarker(outB.before))
               |-> outB.before[SecondMarker(outB.before) + i]]
       /\ buffer[1] = Marker

C1_Witness ==
  /\ outB.ran /\ Preempted(outB.before)
  /\ Len(outB.payload) = MinPayload
  /\ outB.event = "record"

(* C12: while auto mode is enabled, each resolved frame with at least 12   *)
(* payload bytes produces one 'measurement' event, and every 'measurement' *)
(* event is the event of a frame resolved in that step, whose marker is    *)
(* cut off the buffer with it: events are paired with distinct markers, so *)
(* there are never more events than start markers received.                *)
C12_OneEventPerFrame ==
  /\ (outB.resolved /\ autoModeB /\ Len(outB.payload) >= MinPayload)
        => outB.event = "record"
  /\ outB.event # "none"
        => /\ outB.resolved
           /\ Markers(buffer) < Markers(outB.before)

FrameEnd(buf) == FirstMarker(buf) + 1 + Len(outB.payload)

(* C13: a resolved frame with fewer than 12 payload bytes is decoded to    *)
(* the empty record and produces no 'measurement' event, and its marker    *)
(* and bytes are cut off the buffer all the same; a resolved frame with 12 *)
(* to 19 payload bytes is decoded to a partial record: voltage, current    *)
(* and power present, frequency absent.                                    *)
C13_ShortFrameDropped ==
  outB.resolved
    => /\ buffer = [i \in 1..(Len(outB.before) - FrameEnd(outB.before))
                      |-> outB.before[FrameEnd(outB.before) + i]]
       /\ Len(outB.payload) < MinPayload
            => /\ outB.event = "none"
               /\ \A q \in DOMAIN outB.parsed : outB.parsed[q] = Undefined
       /\ (Len(outB.payload) >= MinPayload /\ Len(outB.payload) < FrameLength - 1)
            => /\ outB.parsed.voltage # Undefined
               /\ outB.parsed.current # Undefined
               /\ outB.parsed.power # Undefined
               /\ outB.parsed.frequency = Undefined
               /\ autoModeB => outB.event = "record"

C13_Witness ==
  /\ outB.resolved /\ autoModeB
  /\ Len(outB.payload) > 0 /\ Len(outB.payload) < MinPayload
  /\ buffer # <<>>

(* C15: for every resolved frame the timestamp reported is the arrival of *)
(* the chunk that contained the frame's own start marker.                  *)
C15_TimestampOfOwnMarker ==
  outB.resolved => outB.timestamp = outB.markerAt

(* C16: for both drivers, when connect is called (again) on a driver, the  *)
(* Meter B byte buffer and the Meter A line queue are empty: what was      *)
(* received before a close is discarded and cannot become part of a frame, *)
(* an event or an answer after the reopen.                                 *)
C16_EmptyOnReconnect ==
  /\ portB = "opening" => buffer = <<>>
  /\ portA = "opening" => responseQueue = <<>>

(* C2: a frame whose marker was received before disableAutoMode was called *)
(* and which is resolved after it (the caller not having enabled auto mode *)
(* or called getMeasurement in between) produces no 'measurement' event.   *)
C2_NoEventForFrameDisabledMidway ==
  outB.midway => outB.event = "none"

(* C3: once disableAutoMode has been called, and until the caller next     *)
(* calls enableAutoMode or getMeasurement, the auto-mode flag stays false, *)
(* no request is transmitted and no 'measurement' event is emitted.        *)
C3_SilentAfterDisable ==
  quiet => /\ ~autoModeB
           /\ outB.tx = 0
           /\ outB.event = "none"

(* C10: for both drivers, disconnect on an open connection disables auto   *)
(* mode before it closes the port (Meter A has cleared the flag and sent   *)
(* 'MA0' while the port is still open and waits its settle delay; Meter B  *)
(* has cleared the flag and cancelled the scheduler timer when the close   *)
(* begins), and from then on the auto-mode flag is false.                  *)
C10_DisabledBeforeClose ==
  /\ discA.pc = "settle" => portA = "open" /\ ~autoModeA
  /\ portA \in {"closing", "closed"} => ~autoModeA
  /\ portB \in {"closing", "closed"} => ~autoModeB

-----------------------------------------------------------------------------
(* Meter B: properties of the decoder.                                     *)

Quantities == <<"voltage", "current", "power", "powerFactor", "frequency">>

Present(record, k) == record[Quantities[k]] # Undefined

DecodedPayload == dIn.kind = "payload" /\ dOut.kind = "record"

(* C14 as stated: for every payload length n in 0..20 the k-th quantity is *)
(* present in the decoded record if and only if n >= 4k.                   *)
C14_PresentFromFourK ==
  (DecodedPayload /\ Len(dIn.value) <= FrameLength - 1)
    => \A k \in 1..5 : Present(dOut.value, k) <=> Len(dIn.value) >= 4 * k

(* C14 amended: for every payload length n the k-th quantity is present in *)
(* the decoded record if and only if n >= 12 and n >= 4k: below 12 bytes   *)
(* every quantity is absent (a payload of 8 bytes yields the empty         *)
(* record), from 12 bytes on voltage, current and power are present, power *)
(* factor from 16 and frequency from 20.  An absent quantity is undefined; *)
(* a present one is a number, zero included.                               *)
C14_PresentFromTwelve ==
  DecodedPayload
    => \A k \in 1..5 :
          /\ Present(dOut.value, k)
               <=> (Len(dIn.value) >= MinPayload /\ Len(dIn.value) >= 4 * k)
          /\ Present(dOut.value, k)
               => dOut.value[Quantities[k]].kind = "number"

C14_Witness ==
  /\ DecodedPayload
  /\ Len(dIn.value) = 8
  /\ \A k \in 1..5 : ~Present(dOut.value, k)

DecodedGroup == dIn.kind = "group" /\ dOut.kind = "value"

Flagged(g) == { i \in 1..Len(g) : (g[i] \div 16) % 16 = 1 }
DecimalNibbles(g) == \A i \in 1..Len(g) : g[i] % 16 <= 9

Least(S) == CHOOSE i \in S : \A j \in S : i <= j

\* the digits of the bytes 1..upto read as one number
RECURSIVE ReadDigits(_, _)
ReadDigits(g, upto) ==
  IF upto = 0 THEN 0 ELSE (10 * ReadDigits(g, upto - 1)) + (g[upto] % 16)

\* the decimal with the given mantissa and number of fraction digits
SameNumber(v, mant, frac) ==
  /\ v.kind = "number"
  /\ v.mant * Pow10(frac) = mant * Pow10(v.frac)

(* C20 as stated: for every group of four bytes the value is the number    *)
(* whose four digits are the low nibbles of the bytes, with the decimal    *)
(* point after the byte whose high nibble is 1.                            *)
C20_FourDigitsAndPoint ==
  DecodedGroup
    => SameNumber(dOut.value, ReadDigits(dIn.value, 4),
                  IF Flagged(dIn.value) = {} THEN 0
                  ELSE 4 - Least(Flagged(dIn.value)))

(* C20 amended: for every group of four bytes whose low nibbles are all    *)
(* decimal digits (0..9), each byte contributes the digit in its low       *)
(* nibble, followed by a decimal point if and only if its high nibble is   *)
(* exactly 1, and the value is the number that parseFloat reads from the   *)
(* concatenation: all four digits when at most one byte carries a point,   *)
(* and otherwise only the digits before the second point.  For every      *)
(* group, decimal nibbles or not, the value is a number: 02 04 12 03       *)
(* gives 242.3, 10 00 00 05 gives 0.005 and 11 00 00 00 gives 1.000        *)
(* (bytes in hexadecimal).                                                 *)
C20_DigitsUpToSecondPoint ==
  /\ DecodedGroup
       => /\ dOut.value.kind = "number"
          /\ DecimalNibbles(dIn.value)
               => LET pts  == Flagged(dIn.value)
                      last == IF Cardinality(pts) >= 2
                              THEN Least(pts \ {Least(pts)}) ELSE 4
                  IN SameNumber(dOut.value, ReadDigits(dIn.value, last),
                                IF pts = {} THEN 0 ELSE last - Least(pts))
  /\ SameNumber(DecodeDigits(<<2, 4, 18, 3>>), 2423, 1)
  /\ SameNumber(DecodeDigits(<<16, 0, 0, 5>>), 5, 3)
  /\ SameNumber(DecodeDigits(<<17, 0, 0, 0>>), 1, 0)

C20_Witness ==
  /\ DecodedGroup
  /\ dIn.value = <<3, 18, 49, 0>>
  /\ dOut.value = [kind |-> "number", mant |-> 321, frac |-> 1]

-----------------------------------------------------------------------------
(* Meter A: the decoder.                                                   *)

DecodedLine == dIn.kind = "line" /\ dOut.kind = "result"

\* the unit of every function tag
C17_Units ==
  (<<"W">> :> <<"W">>) @@ (<<"V", "A", "R">> :> <<"V", "A", "r">>) @@ (<<"P", "F">> :> <<>>)
    @@ (<<"D", "C", "V">> :> <<"V">>) @@ (<<"A", "C", "V">> :> <<"V">>)
    @@ (<<"D", "C", "A">> :> <<"A">>) @@ (<<"A", "C", "A">> :> <<"A">>)

\* values that read as a number, with the number: a value reads as a
\* number when it begins with a decimal literal
C17_Numbers ==
  (<<"1", ".", "0", "E", "+", "0">> :> [kind |-> "number", mant |-> 1, frac |-> 0])
    @@ (<<"-", "0", ".", "0", "0", "0", "E", "+", "0">> :> [kind |-> "number", mant |-> 0, frac |-> 0])
    @@ (<<"2", "3", "8", ".", "5", "E", "+", "0">> :> [kind |-> "number", mant |-> 2385, frac |-> 1])
    @@ (<<"0", ".", "3", "E", "-", "3">> :> [kind |-> "number", mant |-> 3, frac |-> 4])
    @@ (<<"-", "1", "2", ".", "5", "E", "+", "1">> :> [kind |-> "number", mant |-> -125, frac |-> 0])
    @@ (<<"5">> :> [kind |-> "number", mant |-> 5, frac |-> 0])
    @@ (<<"0", ".", "5", "V">> :> [kind |-> "number", mant |-> 5, frac |-> 1])
    @@ (<<".", "5", "e", "1", "x">> :> [kind |-> "number", mant |-> 5, frac |-> 0])
    @@ (<<"I", "n", "f", "i", "n", "i", "t", "y">> :> [kind |-> "infinity", sign |-> 1])

\* values that do not read as a number
C17_Texts ==
  { <<>>, <<"o", "v", "e", "r", "f", "l", "o", "w">>, <<"+">>, <<"E", "+", "0">> }

(* C17: for a token TAG=VALUE whose TAG is one of W, VAR, PF, DCV, ACV,    *)
(* DCA, ACA, the type of the record is TAG, its unit is the unit of TAG    *)
(* in the fixed table, and its value is the number read from VALUE when    *)
(* VALUE reads as a number (a negative one included) and the text of       *)
(* VALUE otherwise, never NaN and never 0 in place of a text; the line     *)
(* "U1=0.01E+0 I1=0.0E-3 PF=overflow" has the value "overflow".            *)
C17_ValueIsNumberOrText ==
  DecodedLine =>
    /\ \A tag \in DOMAIN C17_Units :
         /\ \A v \in DOMAIN C17_Numbers :
              dIn.value = tag \o <<"=">> \o v
                => /\ dOut.value.type = [kind |-> "text", chars |-> tag]
                   /\ dOut.value.unit = [kind |-> "text", chars |-> C17_Units[tag]]
                   /\ dOut.value.value = C17_Numbers[v]
         /\ \A v \in C17_Texts :
              dIn.value = tag \o <<"=">> \o v
                => /\ dOut.value.type = [kind |-> "text", chars |-> tag]
                   /\ dOut.value.unit = [kind |-> "text", chars |-> C17_Units[tag]]
                   /\ dOut.value.value = [kind |-> "text", chars |-> v]
    /\ dIn.value = <<"U", "1", "=", "0", ".", "0", "1", "E", "+", "0", " ", "I", "1", "=", "0", ".", "0", "E", "-", "3", " ", "P", "F", "=", "o", "v", "e", "r", "f", "l", "o", "w">>
         => /\ dOut.value.type = [kind |-> "text", chars |-> <<"P", "F">>]
            /\ dOut.value.value = [kind |-> "text", chars |-> <<"o", "v", "e", "r", "f", "l", "o", "w">>]
    /\ dIn.value = <<"U", "1", "=", "0", ".", "0", "1", "E", "+", "0", " ", "I", "1", "=", "0", ".", "0", "E", "-", "3", " ", " ", " ", "W", "=", "-", "0", ".", "0", "0", "0", "E", "+", "0">>
         => dOut.value.value = [kind |-> "number", mant |-> 0, frac |-> 0]
    /\ dOut.value.value # NaN

C17_Witness ==
  /\ DecodedLine
  /\ dIn.value = <<"P", "F", "=", "o", "v", "e", "r", "f", "l", "o", "w">>
  /\ dOut.value.value = [kind |-> "text", chars |-> <<"o", "v", "e", "r", "f", "l", "o", "w">>]

\* the labels of the range tags
C18_VoltageLabels ==
  (<<"U", "1">> :> <<"5", "0", "V">>) @@ (<<"U", "2">> :> <<"1", "5", "0", "V">>) @@ (<<"U", "3">> :> <<"5", "0", "0", "V">>)

C18_CurrentLabels ==
  (<<"I", "1">> :> <<"1", "6", "0", "m", "A">>) @@ (<<"I", "2">> :> <<"1", ".", "6", "A">>) @@ (<<"I", "3">> :> <<"1", "6", "A">>)
    @@ (<<"I", "x">> :> <<"E", "x", "t", "e", "r", "n", "a", "l">>)

C18_Label(labels, key, raw) ==
  [kind |-> "text", chars |-> IF key \in DOMAIN labels THEN labels[key] ELSE raw]

C18_RangeTags(c) == { t \in Tags : t # <<>> /\ Head(t) = c }

\* a line of one token without '=' sets the label of its tag, or the tag
\* itself, and nothing else
C18_LoneTag ==
  /\ \A tag \in C18_RangeTags("U") :
       dIn.value = tag
         => dOut.value = [NoResult EXCEPT
                            !.voltageRange = C18_Label(C18_VoltageLabels, tag, tag)]
  /\ \A tag \in C18_RangeTags("I") :
       dIn.value = tag
         => dOut.value = [NoResult EXCEPT
                            !.currentRange = C18_Label(C18_CurrentLabels, tag, tag)]

(* C18 as stated: a token beginning with U, with or without '=VALUE',      *)
(* sets voltageRange to the label of its tag if the tag is U1, U2 or U3    *)
(* and to the tag itself otherwise; likewise currentRange for a token      *)
(* beginning with I; a token without '=' sets nothing but the label.       *)
C18_LabelOfTag ==
  DecodedLine =>
    /\ C18_LoneTag
    /\ \A tag \in C18_RangeTags("U"), v \in Values :
         dIn.value = tag \o <<"=">> \o v
           => dOut.value.voltageRange = C18_Label(C18_VoltageLabels, tag, tag)
    /\ \A tag \in C18_RangeTags("I"), v \in Values :
         dIn.value = tag \o <<"=">> \o v
           => dOut.value.currentRange = C18_Label(C18_CurrentLabels, tag, tag)

(* C18 amended: a token beginning with U and without '=' sets voltageRange *)
(* to 50V/150V/500V if it is U1/U2/U3 and otherwise to the token itself;   *)
(* a token TAG=VALUE whose TAG begins with U and has at least two          *)
(* characters sets voltageRange to 50V/150V/500V if the first two          *)
(* characters of TAG are U1/U2/U3 (U12=5 gives 50V) and otherwise to TAG,  *)
(* and a TAG of the single character U sets nothing; likewise for I with   *)
(* 160mA/1.6A/16A/External for I1/I2/I3/Ix; a token without '=' populates  *)
(* only the label and leaves voltage, current, type, value and unit unset. *)
C18_LabelOfTagPrefix ==
  DecodedLine =>
    /\ C18_LoneTag
    /\ \A tag \in C18_RangeTags("U"), v \in Values :
         dIn.value = tag \o <<"=">> \o v
           => IF Len(tag) >= 2
              THEN /\ dOut.value.voltageRange
                        = C18_Label(C18_VoltageLabels, <<tag[1], tag[2]>>, tag)
                   /\ dOut.value.currentRange = Undefined
              ELSE dOut.value = NoResult
    /\ \A tag \in C18_RangeTags("I"), v \in Values :
         dIn.value = tag \o <<"=">> \o v
           => IF Len(tag) >= 2
              THEN /\ dOut.value.currentRange
                        = C18_Label(C18_CurrentLabels, <<tag[1], tag[2]>>, tag)
                   /\ dOut.value.voltageRange = Undefined
              ELSE dOut.value = NoResult

C18_Witness ==
  /\ DecodedLine
  /\ dIn.value = <<"U", "1", "2", "=", "5">>
  /\ dOut.value.voltageRange = [kind |-> "text", chars |-> <<"5", "0", "V">>]

\* the tags of both tables whose label is the given one
C19_TagsOf(label) ==
  { t \in DOMAIN VoltageRanges : VoltageRanges[t] = label }
    \cup { t \in DOMAIN CurrentRanges : CurrentRanges[t] = label }

(* C19: for every tag of the voltage table (U1, U2, U3) and of the current *)
(* table (I1, I2, I3, Ix), the label the decoder gives for the tag, alone  *)
(* or before '=VALUE', is the label of that tag and of no other tag of     *)
(* either table, so that mapping the label back returns the tag.           *)
C19_LabelRoundTrip ==
  /\ DOMAIN VoltageRanges = { <<"U", "1">>, <<"U", "2">>, <<"U", "3">> }
  /\ DOMAIN CurrentRanges = { <<"I", "1">>, <<"I", "2">>, <<"I", "3">>, <<"I", "x">> }
  /\ DecodedLine =>
       /\ \A tag \in DOMAIN VoltageRanges :
            dIn.value \in {tag} \cup { tag \o <<"=">> \o v : v \in Values }
              => /\ dOut.value.voltageRange.kind = "text"
                 /\ C19_TagsOf(dOut.value.voltageRange.chars) = {tag}
       /\ \A tag \in DOMAIN CurrentRanges :
            dIn.value \in {tag} \cup { tag \o <<"=">> \o v : v \in Values }
              => /\ dOut.value.currentRange.kind = "text"
                 /\ C19_TagsOf(dOut.value.currentRange.chars) = {tag}

C19_Witness ==
  /\ DecodedLine
  /\ dIn.value = <<"I", "x">>
  /\ dOut.value.currentRange = [kind |-> "text", chars |-> <<"E", "x", "t", "e", "r", "n", "a", "l">>]
  /\ C19_TagsOf(<<"E", "x", "t", "e", "r", "n", "a", "l">>) = { <<"I", "x">> }

-----------------------------------------------------------------------------
(* Meter A: failures and setters.                                          *)

\* a call of a setter
SetterCallA ==
  \/ EnableAutoModeA
  \/ DisableAutoModeA
  \/ \E func \in Functions : SetFunction(func)
  \/ EnableAutoRange
  \/ DisableAutoRange
  \/ \E range \in Ranges : SetVoltageRange(range)
  \/ \E range \in Ranges : SetCurrentRange(range)

\* a call of the caller; the only command written outside of one is the
\* 'VERSION?' of identify()
ApiCallA ==
  \/ \E r \in UserQueries : SendAndWait(r.cmd, r.timeoutMs)
  \/ Identify
  \/ SetterCallA
  \/ DisconnectA

NoRetransmit ==
  outA'.tx # ""
    => \/ ApiCallA
       \/ /\ outA'.tx = "VERSION?"
          /\ outA'.settle.kind = "resolved"
          /\ outA'.settle.owner = "idn"

(* C21 as stated: when the query of any query operation times out, the     *)
(* operation fails for its caller (sendAndWait and the getters reject,     *)
(* identify rejects), and no command is written except in a call.          *)
C21_TimeoutSurfaces ==
  [][/\ NoRetransmit
     /\ outA'.settle.kind = "rejected" /\ outA'.settle.owner # "user"
          => outA'.returned.kind = "rejected"]_vars

(* C21 amended: a query timeout in sendAndWait, getValue, getStatus and    *)
(* getStatusAndValue is surfaced to the caller as a failure; identify      *)
(* does not surface it: when '*IDN?' times out it completes with the name  *)
(* 'ISW8001' and version null without sending 'VERSION?', and when         *)
(* 'VERSION?' times out it completes with the received name and version    *)
(* null.  The driver never retransmits a command on its own.               *)
C21_TimeoutSurfacesButIdentify ==
  [][/\ NoRetransmit
     /\ outA'.settle.kind = "rejected"
          => /\ outA'.tx = ""
             /\ outA'.settle.owner = "user" => outA'.returned = NoReturn
             /\ outA'.settle.owner = "idn"
                  => outA'.returned = [kind |-> "resolved", name |-> DefaultName,
                                       version |-> Null]
             /\ outA'.settle.owner = "version"
                  => /\ outA'.returned.kind = "resolved"
                     /\ outA'.returned.version = Null
                     /\ outA'.returned.name.seq > 0]_vars

C21_Witness ==
  /\ RejectedA
  /\ outA.settle.owner = "version"
  /\ outA.returned.kind = "resolved"
  /\ outA.returned.name.seq > 0

\* what each valid call of a setter writes to the port, and the delay
\* after which it completes
C22_Expected ==
  /\ EnableAutoModeA => outA'.wire = "MA1\r" /\ setterA'.wait = 100
  /\ DisableAutoModeA => outA'.wire = "MA0\r" /\ setterA'.wait = 100
  /\ EnableAutoRange => outA'.wire = "AUTORANGE\r" /\ setterA'.wait = 100
  /\ DisableAutoRange => outA'.wire = "MANUAL\r" /\ setterA'.wait = 100
  /\ SetFunction("WATT") => outA'.wire = "WATT\r" /\ setterA'.wait = 200
  /\ SetFunction("watt") => outA'.wire = "WATT\r" /\ setterA'.wait = 200
  /\ SetFunction("VAR") => outA'.wire = "VAR\r" /\ setterA'.wait = 200
  /\ SetFunction("Volt") => outA'.wire = "VOLT\r" /\ setterA'.wait = 200
  /\ SetFunction("AMP") => outA'.wire = "AMP\r" /\ setterA'.wait = 200
  /\ SetVoltageRange(1) => outA'.wire = "SET:U1\r" /\ setterA'.wait = 100
  /\ SetVoltageRange(2) => outA'.wire = "SET:U2\r" /\ setterA'.wait = 100
  /\ SetVoltageRange(3) => outA'.wire = "SET:U3\r" /\ setterA'.wait = 100
  /\ SetCurrentRange(1) => outA'.wire = "SET:I1\r" /\ setterA'.wait = 100
  /\ SetCurrentRange(2) => outA'.wire = "SET:I2\r" /\ setterA'.wait = 100
  /\ SetCurrentRange(3) => outA'.wire = "SET:I3\r" /\ setterA'.wait = 100

(* C22: each valid call of a setter (setFunction, setVoltageRange,         *)
(* setCurrentRange, enableAutoRange, disableAutoRange, enableAutoMode,     *)
(* disableAutoMode) writes its one command followed by CR, leaves the      *)
(* line queue and the pending queries as they are, and completes when its  *)
(* fixed delay of 100 ms (200 ms for setFunction) has passed, whether or   *)
(* not a line was received meanwhile; while it waits nothing is written    *)
(* and the line queue only grows by the lines received.                    *)
C22_SettersFireAndForget ==
  [][/\ C22_Expected
     /\ SetterCallA => responseQueue' = responseQueue /\ queries' = queries
     /\ setterA.pc = "sleep"
          => /\ outA'.tx = ""
             /\ Len(responseQueue') >= Len(responseQueue)
             /\ setterA.wait > 0 => outA'.completed = 0
     /\ outA'.completed # 0
          => /\ setterA.pc = "sleep" /\ setterA.wait = 0
             /\ outA'.completed = setterA.slept
             /\ outA'.completed \in {100, 200}
             /\ responseQueue' = responseQueue]_vars

C22_Witness ==
  /\ outA.completed = 200
  /\ Len(responseQueue) > 0

(* C23: setFunction('PWF') is accepted: it throws nothing and writes the   *)
(* command PWF followed by CR.                                             *)
C23_PowerFactorAccepted ==
  [][SetFunction("PWF") => ~outA'.thrown /\ outA'.wire = "PWF\r"]_vars

-----------------------------------------------------------------------------
(* Meter B: framing and the scheduler of requests.                         *)

(* C24: the payload given to the decoder holds no start marker: it is the  *)
(* run of at most 20 bytes that follows the first marker of the buffer     *)
(* and ends before the next marker, so that no byte received after a       *)
(* later marker is part of it and every quantity is decoded from bytes of  *)
(* one frame, however the stream was cut into chunks.                      *)
C24_PayloadOfOneFrame ==
  (outB.ran /\ outB.resolved)
    => /\ \A i \in 1..Len(outB.payload) : outB.payload[i] # Marker
       /\ Len(outB.payload) <= FrameLength - 1
       /\ FirstMarker(outB.before) >= 0
       /\ \A i \in 1..Len(outB.payload) :
            outB.payload[i] = outB.before[FirstMarker(outB.before) + 1 + i]
       /\ \A q \in DOMAIN outB.parsed :
            outB.parsed[q] # Undefined
              => outB.parsed[q]
                   = DecodeDigits([i \in 1..4 |->
                        outB.before[FirstMarker(outB.before) + 1
                          + 4 * ((CHOOSE k \in 1..5 : Quantities[k] = q) - 1) + i]])

C24_Witness ==
  /\ outB.ran /\ outB.resolved
  /\ outB.event = "record"
  /\ SecondMarker(outB.before) >= 0
  /\ Len(outB.before) > SecondMarker(outB.before) + 1

\* the bytes buffered of the frame that starts at the first marker: the
\* marker and what follows it up to the next marker
CurrentFrameLength(buf) ==
  IF FirstMarker(buf) < 0 THEN 0
  ELSE IF SecondMarker(buf) >= 0 THEN SecondMarker(buf) - FirstMarker(buf)
  ELSE Len(buf) - FirstMarker(buf)

(* C25: a run of processBuffer transmits a request only when auto mode is  *)
(* enabled, the minimum interval has passed since the last request, and    *)
(* the frame that starts at the first marker of the buffer has itself at   *)
(* least 13 bytes buffered, the bytes of a following frame not counted.    *)
C25_TriggerCountsOwnFrame ==
  [][(outB'.ran /\ outB'.tx = 1)
       => /\ autoModeB
          /\ sinceRequest >= minInterval
          /\ CurrentFrameLength(outB'.before) >= TriggerLength]_vars

(* C26: once enableAutoMode(interval) was called, a request that is not    *)
(* the request of an API call (enableAutoMode, getMeasurement) is          *)
(* transmitted at least interval ms after the request before it, be it     *)
(* triggered by received data, by the delayed-request timer or by the      *)
(* fallback timer, whose time max(100, interval + 50) is never below the   *)
(* interval.                                                               *)
C26_RequestsIntervalApart ==
  [][/\ (outB'.tx = 1 /\ outB'.cause # "call")
          => /\ sinceRequest >= minInterval
             /\ outB'.cause \in {"data", "delayed", "fallback"}
             /\ outB'.cause = "delayed" => sinceRequest = minInterval
     /\ \A i \in Intervals : FallbackTimeout(i) >= i]_vars

C26_Witness ==
  /\ outB.tx = 1
  /\ outB.cause = "delayed"
  /\ minInterval = Quantum
  /\ rxChunks = MaxChunks

\* processBuffer ran on a buffer whose 13 bytes from the first marker on
\* are there, with auto mode enabled and before the interval has passed
ReachedTriggerEarly ==
  /\ outB'.ran
  /\ autoModeB
  /\ ~nextRequestScheduled
  /\ FirstMarker(outB'.before) >= 0
  /\ Len(outB'.before) >= FirstMarker(outB'.before) + TriggerLength
  /\ minInterval > 0
  /\ sinceRequest < minInterval

(* C27: with an interval above 0, when processBuffer finds the 13 bytes    *)
(* of the current frame while auto mode is enabled and the interval has    *)
(* not passed since the last request, the timer armed afterwards is the    *)
(* delayed-request timer, due exactly when the interval will have passed,  *)
(* and not the fallback timer.                                             *)
C27_DelayedRequestScheduled ==
  [][ReachedTriggerEarly
       => fallbackTimer' = [kind |-> "delayed",
                            wait |-> minInterval - sinceRequest]]_vars

(* C28: from enableAutoMode until disableAutoMode a timer of the           *)
(* scheduler is armed at every moment, and a request transmitted then      *)
(* arms the fallback timer at max(100, interval + 50) ms, so that requests *)
(* go on when no byte arrives.                                             *)
C28_TimerArmedWhileEnabled ==
  session
    => /\ fallbackTimer.kind # "none"
       /\ outB.tx = 1
            => fallbackTimer = [kind |-> "fallback",
                                wait |-> IF minInterval + 50 > 100
                                         THEN minInterval + 50 ELSE 100]

Resolvable(buf) ==
  /\ FirstMarker(buf) >= 0
  /\ MeasurementEndIndex(buf, FirstMarker(buf)) >= 0

\* no run of processBuffer is queued and the buffer holds no frame that
\* could be resolved
AllFramesResolved == immediates = 0 => ~Resolvable(buffer)

(* C29: a run of processBuffer that resolves a frame and leaves bytes      *)
(* behind queues another run of itself, which needs no further chunk; the  *)
(* frame it resolves is the first of the buffer and the bytes left are     *)
(* those from the end of that frame on, so that the frames are taken off   *)
(* the buffer one per run, in stream order.  Consequently,                 *)
(* whenever no run is queued, every resolvable frame of the chunks         *)
(* received so far has been resolved, whether or not another chunk comes.  *)
C29_ResidueRunsAgain ==
  /\ AllFramesResolved
  /\ outB.ran
       => /\ outB.resolved /\ Len(buffer) > 0 => immediates > 0
          /\ outB.resolved = Resolvable(outB.before)
          /\ outB.resolved
               => /\ outB.payload
                      = Slice(outB.before, FirstMarker(outB.before) + 1,
                              MeasurementEndIndex(outB.before,
                                                  FirstMarker(outB.before)))
                  /\ buffer
                      = Slice(outB.before,
                              MeasurementEndIndex(outB.before,
                                                  FirstMarker(outB.before)),
                              Len(outB.before))

\* The first chunk was a lone marker and the second <<marker, 5, marker>>:
\* the chunk's handler resolved the empty frame of the first marker, and
\* the queued run, with no chunk after it, resolved the second frame.
C29_Witness ==
  /\ rxChunks = 2
  /\ outB.ran /\ outB.resolved
  /\ outB.before = <<Marker, 5, Marker>>
  /\ outB.payload = <<5>>
  /\ outB.markerAt = 2
  /\ buffer = <<Marker>>

\* the bytes of the chunks, in order
RECURSIVE Flatten(_)
Flatten(chunks) ==
  IF chunks = <<>> THEN <<>> ELSE Head(chunks) \o Flatten(Tail(chunks))

\* the records emitted when buf arrives as one chunk and every queued run
\* of processBuffer has run
RECURSIVE Drained(_, _)
Drained(buf, records) ==
  LET f == Framed(buf)
  IN IF ~f.resolved THEN records
     ELSE Drained(f.rest,
                  IF f.emitted
                  THEN Append(records, ParseMeasurement(f.payload))
                  ELSE records)

IsPrefix(short, long) ==
  /\ Len(short) <= Len(long)
  /\ short = SubSeq(long, 1, Len(short))

StreamDelivered ==
  /\ dIn.kind = "stream"
  /\ dOut.kind = "framer"
  /\ dIn.chunks = <<>>
  /\ dOut.immediates = 0

(* C30: however a stream is cut into chunks, and whether the queued runs   *)
(* of processBuffer come before or after the next chunk, the records       *)
(* emitted once the stream is delivered are, in order, those emitted when  *)
(* the stream arrives as one chunk; until then they are the first of       *)
(* them; and the bytes taken off the buffer, the buffer and the chunks     *)
(* still to come are at every moment the stream, byte for byte.            *)
C30_ChunkingIndependent ==
  dIn.kind = "stream" /\ dOut.kind = "framer"
    => LET whole == Drained(dIn.stream, <<>>)
       IN /\ dOut.consumed \o dOut.buffer \o Flatten(dIn.chunks) = dIn.stream
          /\ IsPrefix(dOut.records, whole)
          /\ StreamDelivered => dOut.records = whole

\* a stream that came in three chunks, the first boundary inside the
\* payload of the first frame and the second inside the second frame, and
\* gave two records
C30_Witness ==
  /\ StreamDelivered
  /\ Len(dIn.cuts) = 2
  /\ dIn.cuts[1] \in 3..21
  /\ dIn.cuts[2] \in 26..36
  /\ Len(dOut.records) = 2
  /\ dOut.records[1].frequency # Undefined
  /\ dOut.records[2].powerFactor = Undefined
  /\ dOut.buffer = <<Marker>>
  /\ Len(dOut.consumed) = 37

-----------------------------------------------------------------------------
\* the characters of raw that are no flow-control byte, from the first to
\* the last that is no whitespace
Cleaned(raw) ==
  LET kept == SelectSeq(raw, LAMBDA c : c # "XON" /\ c # "XOFF")
      solid == { i \in 1..Len(kept) : kept[i] \notin {" ", "LF", "TAB"} }
  IN IF solid = {} THEN <<>>
     ELSE SubSeq(kept,
                 CHOOSE i \in solid : \A j \in solid : i <= j,
                 CHOOSE i \in solid : \A j \in solid : j <= i)

(* C31: the line put on the queue for a received line is that line        *)
(* without its 0x11/0x13 bytes and without the whitespace around it; a     *)
(* line that is empty after that gives no 'measurement' event and no       *)
(* entry of the queue, every line of the queue is non-empty, and so is     *)
(* the line a query resolves with.                                         *)
C31_LinesCleaned ==
  /\ \A k \in 1..Len(responseQueue) : Len(responseQueue[k].line) > 0
  /\ outA.settle.kind = "resolved" => Len(outA.settle.answer.line) > 0
  /\ outA.rx # <<>>
       => IF Cleaned(outA.rx) = <<>>
          THEN /\ ~outA.event
               /\ outA.settle.kind = "none"
               /\ \A k \in 1..Len(responseQueue) :
                     responseQueue[k].seq # rxCountA
          ELSE /\ responseQueue # <<>>
               /\ responseQueue[Len(responseQueue)]
                    = [line |-> Cleaned(outA.rx), seq |-> rxCountA]

\* a line of flow-control bytes and whitespace arrives while a query is
\* pending and auto mode is on: nothing is queued
C31_Witness ==
  /\ outA.rx = <<"LF", "XON", " ", "XOFF">>
  /\ Pending(queries) # {}
  /\ autoModeA
  /\ responseQueue = <<>>

-----------------------------------------------------------------------------
(* C32: while getMeasurement waits (its 2000 ms have not passed), the      *)
(* first record emitted as 'measurement' resolves its promise, so that it  *)
(* rejects only when no record was decoded; and the payload of a           *)
(* 'measurement' event is always a decoded record.                         *)
C32_GetMeasurementResolves ==
  [][/\ get.state = "waiting" /\ outB'.event = "record"
          => outB'.settle = "resolved" /\ get'.state = "free"
     /\ outB'.event \in {"none", "record"}]_vars

-----------------------------------------------------------------------------
C33_VoltageCommands == <<"SET:U1", "SET:U2", "SET:U3">>
C33_CurrentCommands == <<"SET:I1", "SET:I2", "SET:I3">>

C33_Refused == outA'.thrown /\ outA'.tx = "" /\ outA'.wire = ""

C33_Written(command) ==
  ~outA'.thrown /\ outA'.tx = command /\ outA'.wire = command \o "\r"

-----------------------------------------------------------------------------
(* C34: after a getMeasurement call made while auto mode was disabled, and *)
(* as long as the caller does not enable auto mode, no request is          *)
(* transmitted besides the one of the call; and once the 1500 ms of the    *)
(* temporary enabling have passed the auto-mode flag is false.             *)
C34_SingleRequest ==
  [][get.state = "waiting" /\ ~get.wasAutoMode /\ ~session'
       => /\ outB'.tx = 0
          /\ get'.state = "waiting" /\ get'.restore = NoTimer => ~autoModeB']_vars

-----------------------------------------------------------------------------
(* C35: a scheduler timer is never set beside one that is still pending -  *)
(* the pending one is cancelled first - so that at most one is pending at  *)
(* every moment; and a step transmits at most one request, the expiry of   *)
(* a timer included.                                                       *)
C35_OneSchedulerTimer ==
  /\ outB.timer # "orphaned"
  /\ outB.timer # "" => fallbackTimer.kind \in {"fallback", "delayed"}
  /\ outB.tx \in {0, 1}
  /\ outB.cause \in {"fallback", "delayed"}
       => outB.tx = 1 /\ outB.timer = "armed"

\* a request triggered by the 13 bytes of a frame cancelled the pending
\* fallback timer and armed a new one
C35_Witness ==
  /\ outB.cause = "data"
  /\ outB.timer = "replaced"
  /\ fallbackTimer.kind = "fallback"

-----------------------------------------------------------------------------
(* C36: a request triggered by received data is transmitted only when no   *)
(* such request has been sent for the frame at the head of the buffer, and *)
(* from that request on none is sent until a frame has been resolved and   *)
(* cut off the buffer: the mark of the request stays until then, and only  *)
(* the resolution of a frame takes it away.                                *)
C36_OneImmediatePerFrame ==
  [][/\ outB'.cause = "data"
          => /\ ~nextRequestScheduled
             /\ nextRequestScheduled' \/ outB'.resolved
     /\ nextRequestScheduled /\ outB'.ran /\ ~outB'.resolved
          => outB'.cause # "data" /\ nextRequestScheduled'
     /\ nextRequestScheduled /\ ~nextRequestScheduled'
          => outB'.resolved /\ buffer' # outB'.before]_vars

\* after the request sent for the 13 bytes of a frame, another chunk of
\* the same frame arrives and triggers nothing
C36_Witness ==
  /\ outB.ran /\ ~outB.resolved
  /\ nextRequestScheduled
  /\ autoModeB
  /\ outB.tx = 0
  /\ FirstMarker(outB.before) >= 0
  /\ SecondMarker(outB.before) < 0
  /\ Len(outB.before) > FirstMarker(outB.before) + TriggerLength

-----------------------------------------------------------------------------
(* C37: the queue is emptied by the transmit of a sendAndWait and by       *)
(* nothing else; a received line that is not empty after cleaning is put   *)
(* at its end, cleaned; every other step, the settling of a query          *)
(* included, leaves it as it is.  So the queue holds the non-empty cleaned *)
(* lines received since the last such transmit, in the order of arrival.   *)
C37_QueueSinceTransmit ==
  [][/\ IF outA'.tx \in QueryCommands
        THEN responseQueue' = <<>>
        ELSE IF outA'.rx # <<>> /\ Cleaned(outA'.rx) # <<>>
        THEN responseQueue'
               = Append(responseQueue,
                        [line |-> Cleaned(outA'.rx), seq |-> rxCountA'])
        ELSE responseQueue' = responseQueue
     /\ \A k \in 1..(Len(responseQueue') - 1) :
          responseQueue'[k].seq < responseQueue'[k + 1].seq]_vars

\* a query has resolved with the first of two lines received since its
\* transmit, and both are still on the queue
C37_Witness ==
  /\ ResolvedA
  /\ outA.settle.owner = "user"
  /\ Len(responseQueue) = 2
  /\ responseQueue[1] = outA.settle.answer

-----------------------------------------------------------------------------
(* C38: every sendAndWait call settles exactly once, resolved or rejected,  *)
(* no later than one poll period after timeoutMs has elapsed, and schedules *)
(* no poll afterwards.  In every step the calls pending before it and the   *)
(* call it starts are the calls pending after it and the one it settles;    *)
(* a pending call has a poll scheduled within 50 ms and has not outlived    *)
(* timeoutMs + 50 ms, a settlement happens within that time, and a settled  *)
(* call leaves no timer behind.                                            *)
C38_SettlesOnceInTime ==
  [][/\ Cardinality(Pending(queries))
          + (IF outA'.tx \in QueryCommands THEN 1 ELSE 0)
        = Cardinality(Pending(queries'))
          + (IF outA'.settle.kind = "none" THEN 0 ELSE 1)
     /\ outA'.settle.kind \in {"none", "resolved", "rejected"}
     /\ outA'.settle.kind # "none"
          => outA'.settle.elapsed <= outA'.settle.timeoutMs + PollPeriod
     /\ \A i \in Pending(queries') :
          /\ queries'[i].wait \in 0..PollPeriod
          /\ queries'[i].elapsed <= queries'[i].timeoutMs + PollPeriod
     /\ \A i \in DOMAIN queries' :
          queries'[i].state = "free" => queries'[i] = Free]_vars

C38_Witness ==
  /\ RejectedA
  /\ outA.settle.owner = "user"
  /\ outA.settle.elapsed = outA.settle.timeoutMs + PollPeriod
  /\ Pending(queries) = {}

-----------------------------------------------------------------------------
(* C39: a 'measurement' event emitted after an enableAutoMode call carries  *)
(* only bytes received after that call.  Checked where it is decided, on    *)
(* the run of processBuffer that follows the call: the bytes the buffer     *)
(* held at the call are the first Len(buffer) bytes that run works on, and  *)
(* the event carries the payload that follows the first marker, so the      *)
(* payload of an event emitted then starts past the bytes held at the call. *)
C39_EventBytesOfSession ==
  [][(/\ outB.tx = 1 /\ outB.cause = "call" /\ outB.event = "none"
      /\ session
      /\ outB'.event = "record")
       => FirstMarker(outB'.before) + 1 >= Len(buffer)]_vars

=============================================================================
